---- MODULE Spec2Model ----
(***************************************************************************)
(* Model of the bird gallery (tsheiner/birdGrid).                          *)
(*                                                                         *)
(*   Spec         src/script.js: one call of fetchBirdImagesWithFallback,  *)
(*                request by request (Commons category lookup, Commons     *)
(*                search, Wikipedia summary, Wikipedia search).            *)
(*   SpecLoad     src/script.js: loadBirds (two passes), createBirdCard    *)
(*                and the filter box of setupFiltering; SpecLoadFair adds  *)
(*                that responses arrive and timers fire.                   *)
(*   SpecMulti    src/unnamed/part_002: one call of fetchBirdImage over    *)
(*                the Wikipedia, Pixabay and Unsplash strategies.          *)
(*   SpecStock    src/unnamed/part_002: one call of fetchUnsplashImage or  *)
(*                fetchPixabayImage, search term by search term.           *)
(*   SpecPar      src/unnamed/part_002: loadBirds, the birds of a category *)
(*                resolved in parallel.                                    *)
(*   SpecRefresh  src/unnamed/part_002: refreshBirdImage, overlapping      *)
(*                refreshes of one card; SpecRefreshFair adds that the     *)
(*                awaited requests complete or fail.                       *)
(*                                                                         *)
(* A string is a sequence of one-character strings.                        *)
(***************************************************************************)
EXTENDS Integers, Sequences, FiniteSets, TLC

VARIABLES
    \* ---- src/script.js, fetchBirdImagesWithFallback (Spec)
    pc,          \* position in the call: call, fetch, wait, done, crashed
    req,         \* the request about to leave (fetch) or awaited (wait)
    comName,     \* commonName
    sciName,     \* scientificName
    images,      \* the local `images` of the running strategy function
    filtered,    \* filteredImages / filteredResults of the running loop
    idx,         \* the loop variable i
    inflight,    \* number of fetches issued and not yet answered
    log,         \* history: the requests issued, in order
    result,      \* the list fetchBirdImagesWithFallback returned
    raised,      \* an exception escaped fetchBirdImagesWithFallback
    produced,    \* history: candidates each strategy holds for its caller
    members,     \* history: the list response whose loop runs or returned
    failed,      \* history: requests that failed (rejected, non-2xx, malformed)
    empties,     \* history: requests answered by well-formed JSON without result
    anyOk,       \* history: some request was answered with a 2xx status
    dropped,     \* history: the catch block of fetchBirdImagesFromCommons ran
                 \* when `images` already held candidates
    \* ---- src/unnamed/part_002, fetchBirdImage (SpecMulti)
    mpc,         \* position in the call: call, wait, returned, crashed
    stage,       \* the try block that runs: preferred, wikipedia, pixabay, unsplash
    birdName,    \* birdName
    preferred,   \* preferredSource ("none" for null)
    calls,       \* history: the strategies invoked, with what each came back with
    mresult,     \* the candidate fetchBirdImage returned
    mraised,     \* an exception escaped fetchBirdImage
    \* ---- src/script.js, loadBirds and the page (SpecLoad)
    lpc,         \* position of loadBirds: start, data_wait, failed, timer,
                 \* resolve_wait, delay, finished
    data,        \* the categories of the bird data, once loaded
    container,   \* the children of #birds-container
    filterText,  \* the text of the filter box
    cardIdx,     \* second pass: which card of the NodeList is being resolved
    started,     \* history: calls of fetchBirdImagesWithFallback begun
    reloads,     \* history: img.onerror has found the placeholder already
                 \* displayed and assigned it again
    \* ---- src/unnamed/part_002, fetchUnsplashImage and fetchPixabayImage (SpecStock)
    stockPc,       \* idle, search, lastresort, returned
    stockSource,   \* unsplash or pixabay
    term,          \* which search term is being tried, from 1
    hits,          \* the results the selection was made from
    scoredResults, \* the results with their scores, sorted
    topResults,    \* the results eligible for selection
    randomIndex,   \* the index drawn
    selected,      \* the result returned, NoPhoto for null
    queried,       \* history: the search terms queried, in order, each with
                   \* what its response gave: pending, nothing, results
    \* ---- src/unnamed/part_002, loadBirds (SpecPar)
    parPc,         \* idle, start, data_wait, category, finished, failed
    parData,       \* the categories of the bird data
    parCat,        \* the category being processed
    parContainer,  \* the children of #birds-container
    tasks,         \* the callbacks of birds.map for the current category
    completed,     \* history: the birds in the order their callbacks returned
    \* ---- src/unnamed/part_002, refreshBirdImage on one card (SpecRefresh)
    imgSrc,              \* imgElement.src
    sourceIndicator,     \* sourceIndicator.dataset.source
    attributionElement,  \* attributionElement: style.display and innerHTML
    refreshes            \* the calls of refreshBirdImage, in the order they began

rvars == <<pc, req, comName, sciName, images, filtered, idx, inflight, log, result,
           raised, produced, members, failed, empties, anyOk, dropped>>

mvars == <<mpc, stage, birdName, preferred, calls, mresult, mraised>>

lvars == <<lpc, data, container, filterText, cardIdx, started, reloads>>

svars == <<stockPc, stockSource, term, hits, scoredResults, topResults, randomIndex, selected,
           queried>>

pvars == <<parPc, parData, parCat, parContainer, tasks, completed>>

fvars == <<imgSrc, sourceIndicator, attributionElement, refreshes>>

vars == <<rvars, mvars, lvars, svars, pvars, fvars>>

(***************************************************************************)
(* Strings                                                                 *)
(***************************************************************************)
UpperChars == <<"A","B","C","D","E","F","G","H","I","J","K","L","M",
                "N","O","P","Q","R","S","T","U","V","W","X","Y","Z">>

LowerChars == <<"a","b","c","d","e","f","g","h","i","j","k","l","m",
                "n","o","p","q","r","s","t","u","v","w","x","y","z">>

\* The lower-case letter of each upper-case letter.
LowerOf ==
    [c \in { UpperChars[i] : i \in DOMAIN UpperChars } |->
        LowerChars[CHOOSE i \in DOMAIN UpperChars : UpperChars[i] = c]]

ToLowerChar(c) == IF c \in DOMAIN LowerOf THEN LowerOf[c] ELSE c

\* String.prototype.toLowerCase
toLowerCase(s) == [i \in 1..Len(s) |-> ToLowerChar(s[i])]

\* String.prototype.endsWith
endsWith(s, suffix) ==
    /\ Len(suffix) <= Len(s)
    /\ SubSeq(s, Len(s) - Len(suffix) + 1, Len(s)) = suffix

\* String.prototype.includes
includes(s, sub) ==
    \E i \in 0..(Len(s) - Len(sub)) : SubSeq(s, i + 1, i + Len(sub)) = sub

Min(a, b) == IF a <= b THEN a ELSE b

W_jpg == <<".","j","p","g">>
W_jpeg == <<".","j","p","e","g">>
W_png == <<".","p","n","g">>
W_map == <<"m","a","p">>
W_distribution == <<"d","i","s","t","r","i","b","u","t","i","o","n">>
W_range == <<"r","a","n","g","e">>
W_diagram == <<"d","i","a","g","r","a","m">>
W_icon == <<"i","c","o","n">>
W_logo == <<"l","o","g","o">>
W_wiki == <<"w","i","k","i">>

(***************************************************************************)
(* Inputs of Spec                                                          *)
(***************************************************************************)
\* Longest list of members a category or search response carries in the model.
MaxMembers == 6

\* `Math.min(filteredImages.length, 5)`
MaxImages == 5

N_Ani == <<"A","n","i">>
N_RedOwl == <<"R","e","d"," ","O","w","l">>
N_QA == <<"Q","&","A">>
S_Ani == <<"C","r","o","t","o","p","h","a","g","a"," ","a","n","i">>

\* Entries of birds_of_costa_rica.json; a missing scientific_name is ''.
Birds == { [common_name |-> N_Ani, scientific_name |-> S_Ani],
           [common_name |-> N_RedOwl, scientific_name |-> <<>>] }

\* Titles of the long responses: one that passes the filter, one that is a map.
T_Ara == <<"F","i","l","e",":","A","r","a",".","J","P","G">>
T_Map == <<"F","i","l","e",":","M","a","p",".","j","p","g">>

\* Titles of the one-member responses: stem and extension in every pairing.
TitleStems == { <<"a","r","a">>, <<"R","o","a","d","M","a","p","s">>,
                <<"A","r","r","a","n","g","e">>, W_distribution, W_diagram,
                <<"I","c","o","n">>, W_logo, <<"W","i","k","i">>, <<>> }

TitleExts == { W_jpg, <<".","J","P","G">>, W_jpeg, W_png,
               <<".","s","v","g">>, <<".","j","p","g",".","t","x","t">>,
               <<"j","p","g">> }

RECURSIVE SeqsUpTo(_, _)
SeqsUpTo(S, n) ==
    IF n = 0 THEN { <<>> }
    ELSE LET shorter == SeqsUpTo(S, n - 1)
         IN  shorter \cup { Append(s, x) : s \in { t \in shorter : Len(t) = n - 1 }, x \in S }

MemberLists ==
    SeqsUpTo({T_Ara, T_Map}, MaxMembers)
        \cup { << stem \o ext >> : stem \in TitleStems, ext \in TitleExts }

\* What a request can be answered with.  reject: fetch rejects; notok: a
\* non-2xx status; badjson: response.json() rejects; badshape: JSON whose shape
\* makes the code dereference undefined (null payload, a member without title,
\* an empty `pages`, a thumbnail without content_urls); empty: well-formed JSON
\* without the list or image asked for.
ThrowKinds == {"reject", "badjson", "badshape"}
FailKinds == ThrowKinds \cup {"notok"}

Answer(kind) == [kind |-> kind, titles |-> <<>>]

ListAnswers ==
    { Answer(k) : k \in FailKinds \cup {"empty"} }
        \cup { [kind |-> "members", titles |-> l] : l \in MemberLists \ { <<>> } }

InfoAnswers == { Answer(k) : k \in FailKinds \cup {"empty", "image"} }

SummaryAnswers == { Answer(k) : k \in FailKinds \cup {"empty", "thumb", "thumb_orig"} }

WSearchAnswers == { Answer(k) : k \in FailKinds \cup {"empty", "hit"} }

(***************************************************************************)
(* src/script.js: the resolver                                             *)
(***************************************************************************)
\* The strategy (1 category lookup, 2 Commons search, 3 Wikipedia summary,
\* 4 Wikipedia search) a request belongs to.
StrategyOf(r) ==
    CASE r \in {"category", "catinfo"} -> 1
      [] r \in {"search", "sinfo"} -> 2
      [] r = "summary" -> 3
      [] r \in {"wsearch", "page"} -> 4

NoneProduced == [s \in 1..4 |-> 0]

NoMembers == [from |-> "none", titles |-> <<>>]

\* Mutant: the filter with the seven keywords of the specification's list.
CategoryFilter_SevenKeywords(title) ==
    LET t == toLowerCase(title)
    IN  /\ (endsWith(t, W_jpg) \/ endsWith(t, W_jpeg) \/ endsWith(t, W_png))
        /\ \A k \in {W_map, W_distribution, W_range, W_diagram, W_icon, W_logo, W_wiki} :
               ~includes(t, k)

\* The filter callback of data.query.categorymembers.filter
CategoryFilter(title) ==
    LET t == toLowerCase(title)
    IN  /\ (endsWith(t, W_jpg) \/ endsWith(t, W_jpeg) \/ endsWith(t, W_png))
        /\ ~includes(t, W_map)
        /\ ~includes(t, W_distribution)
        /\ ~includes(t, W_range)
        /\ ~includes(t, W_diagram)

\* Mutant: the `!title.includes('range')` line is missing.
SearchFilter_NoRange(title) ==
    LET t == toLowerCase(title)
    IN  /\ (endsWith(t, W_jpg) \/ endsWith(t, W_jpeg) \/ endsWith(t, W_png))
        /\ ~includes(t, W_map)
        /\ ~includes(t, W_distribution)
        /\ ~includes(t, W_diagram)

\* The filter callback of searchData.query.search.filter
SearchFilter(title) ==
    LET t == toLowerCase(title)
    IN  /\ (endsWith(t, W_jpg) \/ endsWith(t, W_jpeg) \/ endsWith(t, W_png))
        /\ ~includes(t, W_map)
        /\ ~includes(t, W_distribution)
        /\ ~includes(t, W_range)
        /\ ~includes(t, W_diagram)

\* The members of a response as objects: `pos` tells equal titles apart.
Items(titles) == [i \in 1..Len(titles) |-> [title |-> titles[i], pos |-> i]]

FilteredImages(titles) == SelectSeq(Items(titles), LAMBDA it : CategoryFilter(it.title))

FilteredResults(titles) == SelectSeq(Items(titles), LAMBDA it : SearchFilter(it.title))

\* Mutant: the loop runs over every filtered item, without the cap of 5.
LoopBound_NoCap(n) == n

\* Mutant: the loop stops one round early.
LoopBound_Short(n) == Min(n, MaxImages) - 1

\* `const maxImages = Math.min(filteredImages.length, 5)`: the rounds of the loop
LoopBound(n) == Min(n, MaxImages)

\* images.push({url: page.imageinfo[0].url, link: .../File:<title>})
CommonsImage(item, from) ==
    [source |-> from, title |-> item.title, pos |-> item.pos, url |-> "imageinfo"]

\* images.push({url: data.thumbnail.source, link: ...}) and the originalimage
WikipediaImages(kind, from) ==
    LET thumb == [source |-> from, title |-> <<>>, pos |-> 0, url |-> "thumbnail"]
        orig == [source |-> from, title |-> <<>>, pos |-> 0, url |-> "originalimage"]
    IN  IF kind = "thumb_orig" THEN <<thumb, orig>> ELSE <<thumb>>

\* A result of either service: Unsplash photos have description,
\* alt_description, tags (tagList) and likes; Pixabay hits have tags (one
\* string), likes and imageWidth.
Photo(id, description, alt, tagList, tags, likes, imageWidth) ==
    [id |-> id, description |-> description, alt_description |-> alt,
     tagList |-> tagList, tags |-> tags, likes |-> likes, imageWidth |-> imageWidth]

NoPhoto == Photo("none", <<>>, <<>>, <<>>, <<>>, 0, 0)

\* Neither stock-photo function is running.
IdleStock ==
    /\ stockPc = "idle"
    /\ stockSource = "none"
    /\ term = 0
    /\ hits = <<>>
    /\ scoredResults = <<>>
    /\ topResults = <<>>
    /\ randomIndex = 0
    /\ selected = NoPhoto
    /\ queried = <<>>

\* No card is on the page.
IdleRefresh ==
    /\ imgSrc = [site |-> "none", query |-> <<>>]
    /\ sourceIndicator = "none"
    /\ attributionElement = [display |-> "none", innerHTML |-> "none"]
    /\ refreshes = <<>>

\* loadBirds of part_002 is not running.
IdlePar ==
    /\ parPc = "idle"
    /\ parData = <<>>
    /\ parCat = 0
    /\ parContainer = <<>>
    /\ tasks = <<>>
    /\ completed = <<>>

\* The page before its DOMContentLoaded event.
IdleLoad ==
    /\ lpc = "start"
    /\ data = <<>>
    /\ container = <<>>
    /\ filterText = <<>>
    /\ cardIdx = 0
    /\ started = 0
    /\ reloads = FALSE

\* No call of fetchBirdImage (part_002) is under way.
IdleMulti ==
    /\ mpc = "idle"
    /\ stage = "none"
    /\ birdName = <<>>
    /\ preferred = "none"
    /\ calls = <<>>
    /\ mresult = [source |-> "none"]
    /\ mraised = FALSE

\* No call of fetchBirdImagesWithFallback (script.js) is under way.
IdleResolver ==
    /\ pc = "idle"
    /\ req = "none"
    /\ comName = <<>>
    /\ sciName = <<>>
    /\ images = <<>>
    /\ filtered = <<>>
    /\ idx = 0
    /\ inflight = 0
    /\ log = <<>>
    /\ result = <<>>
    /\ raised = FALSE
    /\ produced = NoneProduced
    /\ members = NoMembers
    /\ failed = {}
    /\ empties = {}
    /\ anyOk = FALSE
    /\ dropped = FALSE

Init ==
    /\ IdleMulti
    /\ IdleLoad
    /\ IdleStock
    /\ IdlePar
    /\ IdleRefresh
    /\ pc = "call"
    /\ req = "none"
    /\ \E b \in Birds : comName = b.common_name /\ sciName = b.scientific_name
    /\ images = <<>>
    /\ filtered = <<>>
    /\ idx = 0
    /\ inflight = 0
    /\ log = <<>>
    /\ result = <<>>
    /\ raised = FALSE
    /\ produced = NoneProduced
    /\ members = NoMembers
    /\ failed = {}
    /\ empties = {}
    /\ anyOk = FALSE
    /\ dropped = FALSE

\* What every answer does to the history variables.
Answered(a) ==
    /\ inflight' = inflight - 1
    /\ failed' = IF a.kind \in FailKinds THEN failed \cup {req} ELSE failed
    /\ empties' = IF a.kind = "empty" THEN empties \cup {req} ELSE empties
    /\ anyOk' = (anyOk \/ a.kind \notin {"reject", "notok"})
    /\ dropped' = (dropped \/ (a.kind \in ThrowKinds /\ StrategyOf(req) \in {1, 2}
                                                     /\ images # <<>>))
    /\ UNCHANGED <<comName, sciName, log>>
    /\ UNCHANGED <<mvars, lvars, svars, pvars, fvars>>

\* The response `data` and its filtered list go out of scope.
Forget ==
    /\ members' = NoMembers
    /\ filtered' = <<>>

\* The list response a and what its filter kept.
Remember(from, a, fl) ==
    /\ members' = [from |-> from, titles |-> a.titles]
    /\ filtered' = fl

\* Control moves on to the fetch of request r.
Goto(r) ==
    /\ pc' = "fetch"
    /\ req' = r

\* Mutant: the list is returned in either order.
Return_AnyOrder(imgs) ==
    /\ pc' = "done"
    /\ req' = "none"
    /\ result' \in {imgs, [i \in 1..Len(imgs) |-> imgs[Len(imgs) + 1 - i]]}
    /\ images' = <<>>
    /\ idx' = 0
    /\ UNCHANGED raised

\* fetchBirdImagesWithFallback returns imgs.
Return(imgs) ==
    /\ pc' = "done"
    /\ req' = "none"
    /\ result' = imgs
    /\ images' = <<>>
    /\ idx' = 0
    /\ UNCHANGED raised

\* Mutant: the `images.length === 0` test is missing, Wikipedia is always asked.
AfterCommons_NoCheck(imgs) ==
    /\ Goto("summary")
    /\ images' = <<>>
    /\ idx' = 0
    /\ UNCHANGED <<result, raised>>

\* fetchBirdImagesWithFallback, after `await fetchBirdImagesFromCommons`:
\* `if (images.length === 0) images = await fetchBirdImagesFromWikipedia(...)`.
AfterCommons(imgs) ==
    IF Len(imgs) = 0
    THEN /\ Goto("summary")
         /\ images' = <<>>
         /\ idx' = 0
         /\ UNCHANGED <<result, raised>>
    ELSE Return(imgs)

\* Mutant: the catch block returns what was collected, `return images`.
CommonsCatch_KeepImages ==
    /\ UNCHANGED <<produced, members, filtered>>
    /\ AfterCommons(images)

\* Mutant: no catch block, the exception leaves fetchBirdImagesWithFallback.
CommonsCatch_Rethrow ==
    /\ pc' = "crashed"
    /\ req' = "none"
    /\ raised' = TRUE
    /\ Forget
    /\ UNCHANGED <<images, idx, result, produced>>

\* The catch block of fetchBirdImagesFromCommons: `return []`.
CommonsCatch ==
    /\ produced' = [produced EXCEPT ![1] = 0, ![2] = 0]
    /\ Forget
    /\ AfterCommons(<<>>)

\* Mutant: no catch block, the exception leaves fetchBirdImagesWithFallback.
WikipediaCatch_Rethrow ==
    /\ pc' = "crashed"
    /\ req' = "none"
    /\ raised' = TRUE
    /\ UNCHANGED <<images, idx, result, produced>>

\* The catch block of fetchBirdImagesFromWikipedia: `return []`.
WikipediaCatch ==
    /\ produced' = [produced EXCEPT ![3] = 0, ![4] = 0]
    /\ Return(<<>>)

\* fetchBirdImagesFromCommons runs off its end: the logging and `return images`.
CommonsEnd(imgs) ==
    /\ UNCHANGED produced
    /\ AfterCommons(imgs)

\* The Commons search is next: `const searchResponse = await fetch(searchUrl)`.
ToSearch ==
    /\ Goto("search")
    /\ images' = <<>>
    /\ idx' = 0
    /\ UNCHANGED <<result, raised, produced>>

\* The first round of an image-info loop.
StartLoop(r) ==
    /\ Goto(r)
    /\ idx' = 0
    /\ UNCHANGED <<images, result, raised, produced>>

\* fetchBirdImagesWithFallback is entered: `if (scientificName)`.
Call ==
    /\ pc = "call"
    /\ Goto(IF sciName # <<>> THEN "category" ELSE "summary")
    /\ UNCHANGED <<comName, sciName, images, filtered, idx, inflight, log, result,
                   raised, produced, members, failed, empties, anyOk, dropped>>
    /\ UNCHANGED <<mvars, lvars, svars, pvars, fvars>>

\* Mutant: the imageinfo requests of a loop leave two at a time.
Fetch_Batch ==
    /\ pc = "fetch"
    /\ pc' = "wait"
    /\ log' = Append(log, req)
    /\ inflight' = inflight + (IF req \in {"catinfo", "sinfo"} THEN 2 ELSE 1)
    /\ UNCHANGED <<req, comName, sciName, images, filtered, idx, result, raised,
                   produced, members, failed, empties, anyOk, dropped>>
    /\ UNCHANGED <<mvars, lvars, svars, pvars, fvars>>

\* `await fetch(url)`: the request leaves.
Fetch ==
    /\ pc = "fetch"
    /\ pc' = "wait"
    /\ log' = Append(log, req)
    /\ inflight' = inflight + 1
    /\ UNCHANGED <<req, comName, sciName, images, filtered, idx, result, raised,
                   produced, members, failed, empties, anyOk, dropped>>
    /\ UNCHANGED <<mvars, lvars, svars, pvars, fvars>>

\* The category lookup is answered: lines 27-46 and, with no member left after
\* the filter, on to the search.
CategoryResponse(a) ==
    /\ pc = "wait" /\ req = "category"
    /\ Answered(a)
    /\ CASE a.kind \in ThrowKinds -> CommonsCatch
         [] a.kind = "notok" -> Forget /\ CommonsEnd(images)
         [] a.kind = "empty" -> Forget /\ ToSearch
         [] a.kind = "members" ->
              LET fl == FilteredImages(a.titles)
              IN  /\ Remember("category", a, fl)
                  /\ IF LoopBound(Len(fl)) > 0 THEN StartLoop("catinfo") ELSE ToSearch

\* The list `images` after the answer a to the image-info request of item it.
Pushed(imgs, it, a, from) ==
    IF a.kind = "image" THEN Append(imgs, CommonsImage(it, from)) ELSE imgs

\* An image-info request of the category loop is answered: lines 52-74.
CategoryInfoResponse(a) ==
    /\ pc = "wait" /\ req = "catinfo"
    /\ Answered(a)
    /\ IF a.kind \in ThrowKinds
       THEN CommonsCatch
       ELSE LET imgs == Pushed(images, filtered[idx + 1], a, "category")
            IN  IF idx + 1 < LoopBound(Len(filtered))
                THEN /\ Goto("catinfo")
                     /\ images' = imgs
                     /\ idx' = idx + 1
                     /\ produced' = [produced EXCEPT ![1] = Len(imgs)]
                     /\ UNCHANGED <<filtered, result, raised, members>>
                ELSE IF Len(imgs) > 0
                     THEN /\ produced' = [produced EXCEPT ![1] = Len(imgs)]
                          /\ UNCHANGED <<members, filtered>>
                          /\ AfterCommons(imgs)
                     ELSE Forget /\ ToSearch

\* The Commons search is answered: lines 81-99.
SearchResponse(a) ==
    /\ pc = "wait" /\ req = "search"
    /\ Answered(a)
    /\ CASE a.kind \in ThrowKinds -> CommonsCatch
         [] a.kind \in {"notok", "empty"} -> Forget /\ CommonsEnd(images)
         [] a.kind = "members" ->
              LET fl == FilteredResults(a.titles)
              IN  /\ Remember("search", a, fl)
                  /\ IF LoopBound(Len(fl)) > 0
                     THEN StartLoop("sinfo")
                     ELSE CommonsEnd(images)

\* An image-info request of the search loop is answered: lines 105-132.
SearchInfoResponse(a) ==
    /\ pc = "wait" /\ req = "sinfo"
    /\ Answered(a)
    /\ IF a.kind \in ThrowKinds
       THEN CommonsCatch
       ELSE LET imgs == Pushed(images, filtered[idx + 1], a, "search")
            IN  IF idx + 1 < LoopBound(Len(filtered))
                THEN /\ Goto("sinfo")
                     /\ images' = imgs
                     /\ idx' = idx + 1
                     /\ produced' = [produced EXCEPT ![2] = Len(imgs)]
                     /\ UNCHANGED <<filtered, result, raised, members>>
                ELSE /\ produced' = [produced EXCEPT ![2] = Len(imgs)]
                     /\ IF Len(imgs) > 0 THEN UNCHANGED <<members, filtered>> ELSE Forget
                     /\ AfterCommons(imgs)

\* The Wikipedia summary is answered: lines 156-181.
SummaryResponse(a) ==
    /\ pc = "wait" /\ req = "summary"
    /\ Answered(a)
    /\ Forget
    /\ CASE a.kind \in ThrowKinds -> WikipediaCatch
         [] a.kind \in {"notok", "empty"} ->
              /\ Goto("wsearch")
              /\ UNCHANGED <<images, idx, result, raised, produced>>
         [] a.kind \in {"thumb", "thumb_orig"} ->
              LET imgs == WikipediaImages(a.kind, "summary")
              IN  /\ produced' = [produced EXCEPT ![3] = Len(imgs)]
                  /\ Return(imgs)

\* The Wikipedia search is answered: lines 183-193.
WSearchResponse(a) ==
    /\ pc = "wait" /\ req = "wsearch"
    /\ Answered(a)
    /\ Forget
    /\ CASE a.kind \in ThrowKinds -> WikipediaCatch
         [] a.kind \in {"notok", "empty"} -> UNCHANGED produced /\ Return(images)
         [] a.kind = "hit" ->
              /\ Goto("page")
              /\ UNCHANGED <<images, idx, result, raised, produced>>

\* The summary of the page found by the search is answered: lines 195-221.
PageResponse(a) ==
    /\ pc = "wait" /\ req = "page"
    /\ Answered(a)
    /\ Forget
    /\ CASE a.kind \in ThrowKinds -> WikipediaCatch
         [] a.kind \in {"notok", "empty"} -> UNCHANGED produced /\ Return(images)
         [] a.kind \in {"thumb", "thumb_orig"} ->
              LET imgs == WikipediaImages(a.kind, "page")
              IN  /\ produced' = [produced EXCEPT ![4] = Len(imgs)]
                  /\ Return(imgs)

Next ==
    \/ Call
    \/ Fetch
    \/ \E a \in ListAnswers : CategoryResponse(a)
    \/ \E a \in InfoAnswers : CategoryInfoResponse(a)
    \/ \E a \in ListAnswers : SearchResponse(a)
    \/ \E a \in InfoAnswers : SearchInfoResponse(a)
    \/ \E a \in SummaryAnswers : SummaryResponse(a)
    \/ \E a \in WSearchAnswers : WSearchResponse(a)
    \/ \E a \in SummaryAnswers : PageResponse(a)

Spec == Init /\ [][Next]_vars

(***************************************************************************)
(* URLs                                                                    *)
(***************************************************************************)
\* The escapes of encodeURIComponent for the reserved characters of the names.
Escapes ==
    (" " :> <<"%","2","0">>) @@ ("&" :> <<"%","2","6">>) @@ ("%" :> <<"%","2","5">>)
        @@ ("+" :> <<"%","2","B">>) @@ ("#" :> <<"%","2","3">>) @@ ("=" :> <<"%","3","D">>)

RECURSIVE encodeURIComponent(_)
encodeURIComponent(s) ==
    IF s = <<>> THEN <<>>
    ELSE (IF Head(s) \in DOMAIN Escapes THEN Escapes[Head(s)] ELSE <<Head(s)>>)
             \o encodeURIComponent(Tail(s))

\* An image URL of a source: nothing of it matters but where it comes from.
ImageUrl(site) == [site |-> site, query |-> <<>>]

(***************************************************************************)
(* src/unnamed/part_002: fetchBirdImage                                    *)
(***************************************************************************)
\* Common names of the birds asked for.
BirdNames == {N_Ani, N_RedOwl, N_QA}

\* The values of preferredSource the callers pass ("none" is null).
PreferredSources == {"none", "wikipedia", "unsplash", "pixabay"}

\* What a strategy function comes back with: an image, null, or an exception.
StrategyOutcomes == {"image", "null", "throw"}

NoCandidate == [source |-> "none"]

\* `https://placehold.co/300x200?text=${encodeURIComponent(birdName)}`
MultiPlaceholderUrl(name) ==
    [site |-> "placehold.co/300x200",
     query |-> <<"t","e","x","t","=">> \o encodeURIComponent(name)]

\* Mutant: the call ends without the placeholder.
Placeholder_Missing(name) == NoCandidate

\* The last statement of fetchBirdImage: the placeholder candidate.
Placeholder(name) ==
    [url |-> MultiPlaceholderUrl(name), attribution |-> "null", source |-> "placeholder"]

\* Mutant: the candidate is labelled with the preferred source.
SourceResult_Preferred(src) ==
    [url |-> ImageUrl(src), attribution |-> "null",
     source |-> IF preferred # "none" THEN preferred ELSE src]

\* The candidate fetchBirdImage returns for an image of source src.
SourceResult(src) ==
    CASE src = "wikipedia" ->
           [url |-> ImageUrl("wikipedia"), attribution |-> "Wikipedia", source |-> "wikipedia"]
      [] src = "pixabay" ->
           [url |-> ImageUrl("pixabay"), attribution |-> "null", source |-> "pixabay"]
      [] src = "unsplash" ->
           [url |-> ImageUrl("unsplash"), attribution |-> "photographer", source |-> "unsplash"]

\* Mutant: the Unsplash call of the default flow is not wrapped in try/catch.
Catches_NotUnsplash(st) == st \in {"preferred", "wikipedia", "pixabay"}

\* The try blocks of fetchBirdImage: an exception of the strategy called in
\* block st is caught there.
Catches(st) == st \in {"preferred", "wikipedia", "pixabay", "unsplash"}

\* The strategy function of source src is called.
Invoke(cs, src) ==
    /\ mpc' = "wait"
    /\ calls' = Append(cs, [source |-> src, out |-> "pending"])

\* The pending call of the history is marked with its outcome.
Marked(cs, o) == [cs EXCEPT ![Len(cs)].out = o]

Source == calls[Len(calls)].source

InitMulti ==
    /\ IdleResolver
    /\ IdleLoad
    /\ IdleStock
    /\ IdlePar
    /\ IdleRefresh
    /\ mpc = "call"
    /\ stage = "none"
    /\ birdName \in BirdNames
    /\ preferred \in PreferredSources
    /\ calls = <<>>
    /\ mresult = NoCandidate
    /\ mraised = FALSE

\* fetchBirdImage is entered: `if (preferredSource)`.
FetchBirdImage ==
    /\ mpc = "call"
    /\ IF preferred # "none"
       THEN stage' = "preferred" /\ Invoke(calls, preferred)
       ELSE stage' = "wikipedia" /\ Invoke(calls, "wikipedia")
    /\ UNCHANGED <<birdName, preferred, mresult, mraised>>
    /\ UNCHANGED <<rvars, lvars, svars, pvars, fvars>>

\* The strategy called in block `stage` came back with outcome o.
StrategyReturns(o) ==
    /\ UNCHANGED <<birdName, preferred>>
    /\ UNCHANGED <<rvars, lvars, svars, pvars, fvars>>
    /\ CASE o = "image" ->
              /\ mpc' = "returned"
              /\ mresult' = SourceResult(Source)
              /\ calls' = Marked(calls, o)
              /\ UNCHANGED <<stage, mraised>>
         [] o = "throw" /\ ~Catches(stage) ->
              /\ mpc' = "crashed"
              /\ mraised' = TRUE
              /\ calls' = Marked(calls, o)
              /\ UNCHANGED <<stage, mresult>>
         [] OTHER ->
              CASE stage = "preferred" ->
                     /\ stage' = "wikipedia"
                     /\ Invoke(Marked(calls, o), "wikipedia")
                     /\ UNCHANGED <<mresult, mraised>>
                [] stage = "wikipedia" ->
                     /\ stage' = "pixabay"
                     /\ Invoke(Marked(calls, o), "pixabay")
                     /\ UNCHANGED <<mresult, mraised>>
                [] stage = "pixabay" ->
                     /\ stage' = "unsplash"
                     /\ Invoke(Marked(calls, o), "unsplash")
                     /\ UNCHANGED <<mresult, mraised>>
                [] stage = "unsplash" ->
                     /\ mpc' = "returned"
                     /\ mresult' = Placeholder(birdName)
                     /\ calls' = Marked(calls, o)
                     /\ UNCHANGED <<stage, mraised>>

\* fetchWikipediaImage comes back.
WikipediaReturns(o) ==
    /\ mpc = "wait" /\ Source = "wikipedia"
    /\ StrategyReturns(o)

\* fetchPixabayImage comes back.
PixabayReturns(o) ==
    /\ mpc = "wait" /\ Source = "pixabay"
    /\ StrategyReturns(o)

\* fetchUnsplashImage comes back.
UnsplashReturns(o) ==
    /\ mpc = "wait" /\ Source = "unsplash"
    /\ StrategyReturns(o)

NextMulti ==
    \/ FetchBirdImage
    \/ \E o \in StrategyOutcomes : WikipediaReturns(o)
    \/ \E o \in StrategyOutcomes : PixabayReturns(o)
    \/ \E o \in StrategyOutcomes : UnsplashReturns(o)

SpecMulti == InitMulti /\ [][NextMulti]_vars

(***************************************************************************)
(* src/script.js: loadBirds, createBirdCard, setupFiltering                *)
(***************************************************************************)
\* Longest candidate list a resolution hands to loadBirds in the model.
MaxResults == 2

C_Cuckoos == <<"C","u","c","k","o","o","s">>
C_Owls == <<"O","w","l","s">>

B_Ani == [common_name |-> N_Ani, scientific_name |-> S_Ani]
B_RedOwl == [common_name |-> N_RedOwl, scientific_name |-> <<>>]
B_QA == [common_name |-> N_QA, scientific_name |-> <<>>]

\* Contents of birds_of_costa_rica.json, as the list of its categories.
SampleData ==
    { <<>>,
      << [category |-> C_Owls, birds |-> <<B_RedOwl>>] >>,
      << [category |-> C_Cuckoos, birds |-> <<B_Ani, B_QA>>],
         [category |-> C_Owls, birds |-> <<>>] >>,
      << [category |-> C_Cuckoos, birds |-> <<B_Ani>>],
         [category |-> C_Owls, birds |-> <<B_RedOwl>>] >> }

\* What the fetch of the bird data is answered with.
DataFailures == {"reject", "notok", "badjson", "badshape"}

\* Texts typed into the filter box.
Queries == { <<>>, <<"a","n">>, <<"A","N">>, <<"O">>, <<"z">> }

Digits == <<"1","2","3","4","5","6">>

\* The i-th candidate of a resolved list.
Candidate(i) == [url |-> [site |-> "upload.wikimedia.org", query |-> <<Digits[i]>>]]

\* The lists fetchBirdImagesWithFallback returns to loadBirds.
ResolverResults == { [i \in 1..n |-> Candidate(i)] : n \in 0..MaxResults }

\* Mutant: the name is put into the URL without encodeURIComponent.
PlaceholderUrl_Raw(name) ==
    [site |-> "placehold.co/300x200", query |-> <<"t","e","x","t","=">> \o name]

\* `https://placehold.co/300x200?text=${encodeURIComponent(commonName)}`
PlaceholderUrl(name) ==
    [site |-> "placehold.co/300x200",
     query |-> <<"t","e","x","t","=">> \o encodeURIComponent(name)]

\* An element of #birds-container that is neither heading nor card.
Plain(kind) ==
    [kind |-> kind, name |-> <<>>, sci |-> <<>>, display |-> "", src |-> ImageUrl("none"),
     images |-> <<>>, index |-> 0, listeners |-> 0, resolved |-> "no"]

\* The category header of the first pass.
CategoryTitle(category) == [Plain("category") EXCEPT !.name = category]

\* createBirdCard(commonName, images), and the dataset loadBirds adds.
createBirdCard(commonName, scientificName, imgs) ==
    [kind |-> "card", name |-> commonName, sci |-> scientificName, display |-> "",
     src |-> IF Len(imgs) > 0 THEN imgs[1].url ELSE PlaceholderUrl(commonName),
     images |-> IF Len(imgs) > 1 THEN imgs ELSE <<>>,
     index |-> 0,
     listeners |-> IF Len(imgs) > 1 THEN 1 ELSE 0,
     resolved |-> "no"]

\* Mutant: only the first category is rendered before the second pass.
FirstPass_OneCategory(categories) ==
    IF categories = <<>> THEN <<>>
    ELSE LET c == Head(categories)
         IN  <<CategoryTitle(c.category)>>
                 \o [i \in 1..Len(c.birds) |->
                        createBirdCard(c.birds[i].common_name, c.birds[i].scientific_name, <<>>)]

\* First pass: the header of each category followed by the cards of its birds.
RECURSIVE FirstPass(_)
FirstPass(categories) ==
    IF categories = <<>> THEN <<>>
    ELSE LET c == Head(categories)
         IN  <<CategoryTitle(c.category)>>
                 \o [i \in 1..Len(c.birds) |->
                        createBirdCard(c.birds[i].common_name, c.birds[i].scientific_name, <<>>)]
                 \o FirstPass(Tail(categories))

\* document.querySelectorAll('.bird-card'): the positions of the cards.
RECURSIVE CardsFrom(_, _)
CardsFrom(els, i) ==
    IF i > Len(els) THEN <<>>
    ELSE (IF els[i].kind = "card" THEN <<i>> ELSE <<>>) \o CardsFrom(els, i + 1)

Cards(els) == CardsFrom(els, 1)

\* Second pass, lines 420-445: the resolved images are patched into the card.
Patched(card, imgs) ==
    IF Len(imgs) > 0
    THEN IF Len(imgs) > 1
         THEN [card EXCEPT !.src = imgs[1].url, !.index = 0, !.images = imgs,
                           !.listeners = @ + 1, !.resolved = "images"]
         ELSE [card EXCEPT !.src = imgs[1].url, !.resolved = "images"]
    ELSE [card EXCEPT !.resolved = "empty"]

\* Mutant: the index stops at the last image instead of wrapping around.
Clicked_NoWrap(card) ==
    LET nextIndex == Min(card.index + 1, Len(card.images) - 1)
    IN  [card EXCEPT !.src = card.images[nextIndex + 1].url, !.index = nextIndex]

\* One run of the click listener: the next image, with wrap-around.
Clicked(card) ==
    LET nextIndex == (card.index + 1) % Len(card.images)
    IN  [card EXCEPT !.src = card.images[nextIndex + 1].url, !.index = nextIndex]

\* n runs of the click listener, one after the other.
RECURSIVE ClickedTimes(_, _)
ClickedTimes(card, n) ==
    IF n = 0 THEN card ELSE ClickedTimes(Clicked(card), n - 1)

\* One click on the image of the card: every click listener added to it runs.
ClickEvent(card) == ClickedTimes(card, card.listeners)

\* Mutant: the text of the filter box is compared as typed.
FilterValue_Raw(text) == text

\* `const filter = this.value.toLowerCase()`
FilterValue(text) == toLowerCase(text)

\* Mutant: incremental narrowing, a hidden card is not looked at again.
IsVisible_Sticky(card, filter) ==
    card.display = "" /\ includes(toLowerCase(card.name), filter)

\* `birdName.includes(filter)` for the text of the card's link.
IsVisible(card, filter) == includes(toLowerCase(card.name), filter)

Shown(b) == IF b THEN "" ELSE "none"

\* The forEach over the children of the container, from child i on: cur is
\* currentCategory (0 for null), vis the categories marked visible.
RECURSIVE Scan(_, _, _, _, _)
Scan(els, i, filter, cur, vis) ==
    IF i > Len(els) THEN [els |-> els, vis |-> vis]
    ELSE IF els[i].kind = "category"
         THEN Scan([els EXCEPT ![i].display = "none"], i + 1, filter, i, vis)
         ELSE IF els[i].kind = "card"
              THEN LET isVisible == IsVisible(els[i], filter)
                   IN  Scan([els EXCEPT ![i].display = Shown(isVisible)], i + 1, filter, cur,
                            IF isVisible /\ cur # 0 THEN vis \cup {cur} ELSE vis)
              ELSE Scan(els, i + 1, filter, cur, vis)

\* The input listener of setupFiltering, applied to the children els.
Filtered(els, text) ==
    LET s == Scan(els, 1, FilterValue(text), 0, {})
    IN  [i \in 1..Len(els) |->
            IF s.els[i].kind = "category"
            THEN [s.els[i] EXCEPT !.display = Shown(i \in s.vis)]
            ELSE s.els[i]]

InitLoad ==
    /\ IdleResolver
    /\ IdleMulti
    /\ IdleStock
    /\ IdlePar
    /\ IdleRefresh
    /\ IdleLoad

\* The DOMContentLoaded listener: loadBirds() up to its first await, then
\* setupFiltering().
DOMContentLoaded ==
    /\ lpc = "start"
    /\ lpc' = "data_wait"
    /\ container' = <<Plain("loading")>>
    /\ UNCHANGED <<data, filterText, cardIdx, started, reloads>>
    /\ UNCHANGED <<rvars, mvars, svars, pvars, fvars>>

\* Mutant: the catch block only logs, the container keeps its content.
DataFails_Silent(o) ==
    /\ lpc = "data_wait"
    /\ lpc' = "failed"
    /\ UNCHANGED <<data, container, filterText, cardIdx, started, reloads>>
    /\ UNCHANGED <<rvars, mvars, svars, pvars, fvars>>

\* The fetch of the bird data fails, or the data cannot be read: the catch
\* block of loadBirds.
DataFails(o) ==
    /\ lpc = "data_wait"
    /\ lpc' = "failed"
    /\ container' = <<Plain("error")>>
    /\ UNCHANGED <<data, filterText, cardIdx, started, reloads>>
    /\ UNCHANGED <<rvars, mvars, svars, pvars, fvars>>

\* The bird data arrives: the instructions, the first pass, and the timer of
\* the second pass is set.
DataArrives(d) ==
    /\ lpc = "data_wait"
    /\ lpc' = "timer"
    /\ data' = d
    /\ container' = <<Plain("instructions")>> \o FirstPass(d)
    /\ UNCHANGED <<filterText, cardIdx, started, reloads>>
    /\ UNCHANGED <<rvars, mvars, svars, pvars, fvars>>

\* fetchBirdImagesWithFallback is called for the k-th card, if there is one.
ResolveCard(k) ==
    IF k <= Len(Cards(container))
    THEN /\ lpc' = "resolve_wait"
         /\ cardIdx' = k
         /\ started' = started + 1
    ELSE /\ lpc' = "finished"
         /\ UNCHANGED <<cardIdx, started>>

\* The timer fires: the second pass begins.
SecondPass ==
    /\ lpc = "timer"
    /\ ResolveCard(1)
    /\ UNCHANGED <<data, container, filterText, reloads>>
    /\ UNCHANGED <<rvars, mvars, svars, pvars, fvars>>

\* fetchBirdImagesWithFallback returns imgs for the current card.
Resolved(imgs) ==
    /\ lpc = "resolve_wait"
    /\ lpc' = "delay"
    /\ LET i == Cards(container)[cardIdx]
       IN  container' = [container EXCEPT ![i] = Patched(@, imgs)]
    /\ UNCHANGED <<data, filterText, cardIdx, started, reloads>>
    /\ UNCHANGED <<rvars, mvars, svars, pvars, fvars>>

\* Mutant: the try/catch is around the loop, an exception ends the second pass.
ResolveThrows_Abort ==
    /\ lpc = "resolve_wait"
    /\ lpc' = "finished"
    /\ LET i == Cards(container)[cardIdx]
       IN  container' = [container EXCEPT ![i].resolved = "threw"]
    /\ UNCHANGED <<data, filterText, cardIdx, started, reloads>>
    /\ UNCHANGED <<rvars, mvars, svars, pvars, fvars>>

\* An exception in the try block of the current card: the catch block logs it
\* and the loop goes on with the next card.
ResolveThrows ==
    /\ lpc = "resolve_wait"
    /\ LET i == Cards(container)[cardIdx]
       IN  container' = [container EXCEPT ![i].resolved = "threw"]
    /\ ResolveCard(cardIdx + 1)
    /\ UNCHANGED <<data, filterText, reloads>>
    /\ UNCHANGED <<rvars, mvars, svars, pvars, fvars>>

\* The 100 ms delay after a card is over: on to the next card.
DelayOver ==
    /\ lpc = "delay"
    /\ ResolveCard(cardIdx + 1)
    /\ UNCHANGED <<data, container, filterText, reloads>>
    /\ UNCHANGED <<rvars, mvars, svars, pvars, fvars>>

\* The image of the card at position i fails to load: img.onerror.
ImageError(i) ==
    /\ container[i].kind = "card"
    /\ container' = [container EXCEPT ![i].src = PlaceholderUrl(container[i].name)]
    /\ IF container[i].src = PlaceholderUrl(container[i].name)
       THEN reloads' = TRUE
       ELSE UNCHANGED reloads
    /\ UNCHANGED <<lpc, data, filterText, cardIdx, started>>
    /\ UNCHANGED <<rvars, mvars, svars, pvars, fvars>>

\* The image of the card at position i is clicked: each click listener runs.
Click(i) ==
    /\ container[i].kind = "card"
    /\ container[i].listeners > 0
    /\ container' = [container EXCEPT ![i] = ClickEvent(@)]
    /\ UNCHANGED <<lpc, data, filterText, cardIdx, started, reloads>>
    /\ UNCHANGED <<rvars, mvars, svars, pvars, fvars>>

\* An input event of the filter box, its text now being q.
FilterInput(q) ==
    /\ lpc # "start"
    /\ filterText' = q
    /\ container' = Filtered(container, q)
    /\ UNCHANGED <<lpc, data, cardIdx, started, reloads>>
    /\ UNCHANGED <<rvars, mvars, svars, pvars, fvars>>

NextLoad ==
    \/ DOMContentLoaded
    \/ \E o \in DataFailures : DataFails(o)
    \/ \E d \in SampleData : DataArrives(d)
    \/ SecondPass
    \/ \E imgs \in ResolverResults : Resolved(imgs)
    \/ ResolveThrows
    \/ DelayOver
    \/ \E i \in DOMAIN container : ImageError(i)
    \/ \E i \in DOMAIN container : Click(i)
    \/ \E q \in Queries : FilterInput(q)

SpecLoad == InitLoad /\ [][NextLoad]_vars

\* The fetch of the bird data and every resolution eventually complete or
\* fail, and the two timers of loadBirds eventually fire.
SpecLoadFair ==
    /\ SpecLoad
    /\ WF_vars((\E o \in DataFailures : DataFails(o)) \/ (\E d \in SampleData : DataArrives(d)))
    /\ WF_vars(SecondPass)
    /\ WF_vars((\E imgs \in ResolverResults : Resolved(imgs)) \/ ResolveThrows)
    /\ WF_vars(DelayOver)

(***************************************************************************)
(* src/unnamed/part_002: fetchUnsplashImage, fetchPixabayImage             *)
(***************************************************************************)
\* Longest result list of a stock-photo search in the model.
MaxHits == 4

\* Math.random() takes the values 0/RandomGrain .. (RandomGrain-1)/RandomGrain.
RandomGrain == 3

\* Scores are counted in units of 1/PointUnits of a point, which keeps
\* likes / 10 and likes / 50 whole.
PointUnits == 50

Points(n) == n * PointUnits

K_bird == <<"b","i","r","d">>
K_wildlife == <<"w","i","l","d","l","i","f","e">>
K_avian == <<"a","v","i","a","n">>
K_birding == <<"b","i","r","d","i","n","g">>
K_ornithology == <<"o","r","n","i","t","h","o","l","o","g","y">>
K_nature == <<"n","a","t","u","r","e">>
K_costa_rica == <<"c","o","s","t","a"," ","r","i","c","a">>

\* const birdKeywords = [...]
birdKeywords == <<K_bird, K_wildlife, K_avian, K_birding, K_ornithology, K_nature>>

\* The bird the stock photos are searched for.
StockBird == B_Ani

UnsplashPhotos ==
    { Photo("u1", <<"A","n","i">>, <<>>, <<<<"B","i","r","d">>>>, <<>>, 0, 0),
      Photo("u2", <<>>, <<"C","r","o","t","o","p","h","a","g","a"," ","a","n","i">>, <<>>, <<>>, 15, 0),
      Photo("u3", <<>>, <<>>, <<<<"C","o","s","t","a"," ","R","i","c","a"," ","b","i","r","d","i","n","g">>>>, <<>>, 80, 0) }

PixabayHits ==
    { Photo("h2", <<>>, <<>>, <<>>, <<"c","r","o","t","o","p","h","a","g","a"," ","a","n","i">>, 75, 1920),
      Photo("h3", <<>>, <<>>, <<>>, <<"C","o","s","t","a"," ","R","i","c","a",","," ","b","i","r","d","i","n","g",","," ","n","a","t","u","r","e">>, 200, 1600),
      Photo("h4", <<>>, <<>>, <<>>, <<"A","n","i">>, 0, 1920) }

ResultsOf(src) == IF src = "unsplash" THEN UnsplashPhotos ELSE PixabayHits

\* The non-empty result lists a search is answered with.
ResultLists(src) == SeqsUpTo(ResultsOf(src), MaxHits) \ {<<>>}

\* Answers that make a search term be skipped: rejected fetch, non-success
\* status, unparsable body, no results.
SkipKinds == {"reject", "notok", "badjson", "empty"}

\* The suffixes of the templated search terms.
Q_bird == <<" ","b","i","r","d">>
Q_bird_costa_rica == <<" ","b","i","r","d"," ","C","o","s","t","a"," ","R","i","c","a">>
Q_bird_exact_species == <<" ","b","i","r","d"," ","e","x","a","c","t"," ","s","p","e","c","i","e","s">>
Q_bird_identification == <<" ","b","i","r","d"," ","i","d","e","n","t","i","f","i","c","a","t","i","o","n">>
Q_bird_photo == <<" ","b","i","r","d"," ","p","h","o","t","o">>
Q_bird_watching == <<" ","b","i","r","d"," ","w","a","t","c","h","i","n","g">>
Q_bird_species == <<" ","b","i","r","d"," ","s","p","e","c","i","e","s">>
Q_wild_bird == <<" ","w","i","l","d"," ","b","i","r","d">>

\* const searchTerms = [...] of fetchUnsplashImage and of fetchPixabayImage.
SearchTerms(src, name, scientificName) ==
    IF src = "unsplash"
    THEN <<name \o Q_bird_costa_rica,
           name \o Q_bird_exact_species,
           name \o Q_bird_identification,
           scientificName \o Q_bird_photo,
           name \o Q_bird_watching,
           name \o Q_bird>>
    ELSE <<name \o Q_bird_species,
           name \o Q_bird_costa_rica,
           scientificName,
           name \o Q_bird,
           name \o Q_wild_bird>>

\* The search term of the iteration i of `for (const term of searchTerms)`.
TermOf(src, i) == SearchTerms(src, StockBird.common_name, StockBird.scientific_name)[i]

\* The request for the search term q leaves; its response is awaited.
Query(qs, q) == Append(qs, [q |-> q, out |-> "pending"])

\* The awaited response has come, with or without results.
Answers(qs, out) == [qs EXCEPT ![Len(qs)].out = out]

\* searchTerms.length
NumTerms(src) == IF src = "unsplash" THEN 6 ELSE 5

\* birdKeywords.forEach(keyword => { if (matched) score += 2 }), from keyword k
\* on; matched[k] tells whether keyword k is found in the tags.
RECURSIVE KeywordScore(_, _, _)
KeywordScore(k, matched, score) ==
    IF k > Len(birdKeywords) THEN score
    ELSE KeywordScore(k + 1, matched, IF matched[k] THEN score + Points(2) ELSE score)

\* Mutant: the like bonus of Unsplash without its cap.
UnsplashLikes_Uncapped(likes) == likes * (PointUnits \div 10)

\* Math.min(photo.likes / 10, 5)
UnsplashLikes(likes) == Min(likes * (PointUnits \div 10), Points(5))

\* Math.min(hit.likes / 50, 3)
PixabayLikes(likes) == Min(likes * (PointUnits \div 50), Points(3))

\* The score of a photo in fetchUnsplashImage, lines 233-268.
UnsplashScore(photo, name, scientificName) ==
    LET description == toLowerCase(photo.description)
        altDescription == toLowerCase(photo.alt_description)
        tags == [i \in DOMAIN photo.tagList |-> toLowerCase(photo.tagList[i])]
        lowerBirdName == toLowerCase(name)
        lowerScientificName == toLowerCase(scientificName)
        TagHas(keyword) == \E i \in DOMAIN tags : includes(tags[i], keyword)
        s1 == IF includes(description, lowerBirdName) \/ includes(altDescription, lowerBirdName)
              THEN Points(10) ELSE 0
        s2 == IF includes(description, lowerScientificName)
                 \/ includes(altDescription, lowerScientificName)
              THEN s1 + Points(15) ELSE s1
        s3 == KeywordScore(1, [k \in DOMAIN birdKeywords |-> TagHas(birdKeywords[k])], s2)
        s4 == IF includes(description, K_costa_rica) \/ includes(altDescription, K_costa_rica)
                 \/ TagHas(K_costa_rica)
              THEN s3 + Points(5) ELSE s3
    IN  s4 + UnsplashLikes(photo.likes)

\* The score of a hit in fetchPixabayImage, lines 587-620.
PixabayScore(hit, name, scientificName) ==
    LET tags == toLowerCase(hit.tags)
        lowerBirdName == toLowerCase(name)
        lowerScientificName == toLowerCase(scientificName)
        TagsHave(keyword) == includes(tags, keyword)
        s1 == IF includes(tags, lowerBirdName) THEN Points(10) ELSE 0
        s2 == IF includes(tags, lowerScientificName) THEN s1 + Points(15) ELSE s1
        s3 == KeywordScore(1, [k \in DOMAIN birdKeywords |-> TagsHave(birdKeywords[k])], s2)
        s4 == IF includes(tags, K_costa_rica) THEN s3 + Points(5) ELSE s3
        s5 == s4 + PixabayLikes(hit.likes)
    IN  s5 + (IF hit.imageWidth > 1600 THEN Points(2) ELSE 0)

Score(src, item) ==
    IF src = "unsplash"
    THEN UnsplashScore(item, StockBird.common_name, StockBird.scientific_name)
    ELSE PixabayScore(item, StockBird.common_name, StockBird.scientific_name)

\* results.map(photo => ({ photo, score }))
Scored(src, results) ==
    [i \in DOMAIN results |-> [photo |-> results[i], score |-> Score(src, results[i])]]

\* x is put before the first element whose score is not higher than its own.
RECURSIVE InsertByScore(_, _)
InsertByScore(x, sorted) ==
    IF sorted = <<>> THEN <<x>>
    ELSE IF Head(sorted).score <= x.score THEN <<x>> \o sorted
         ELSE <<Head(sorted)>> \o InsertByScore(x, Tail(sorted))

\* scoredResults.sort((a, b) => b.score - a.score): stable, highest first.
RECURSIVE SortByScore(_)
SortByScore(s) ==
    IF s = <<>> THEN <<>> ELSE InsertByScore(Head(s), SortByScore(Tail(s)))

Max(a, b) == IF a >= b THEN a ELSE b

\* Mutant: no score threshold, the three highest-ranked results are eligible.
TopResults_NoThreshold(sorted) == sorted

\* scoredResults.filter(result => result.score >= Math.max(topScore - 2, 0))
TopResults(sorted) ==
    LET topScore == sorted[1].score
        Near(scored) == scored.score >= Max(topScore - Points(2), 0)
    IN  SelectSeq(sorted, Near)

\* Math.floor(Math.random() * Math.min(length, most)), Math.random() being
\* r / RandomGrain.
RandomIndex(r, length, most) == (r * Min(length, most)) \div RandomGrain

\* fetchUnsplashImage or fetchPixabayImage is called and fetches for its first
\* search term.
InitStock ==
    /\ IdleResolver
    /\ IdleMulti
    /\ IdleLoad
    /\ IdlePar
    /\ IdleRefresh
    /\ stockPc = "search"
    /\ stockSource \in {"unsplash", "pixabay"}
    /\ term = 1
    /\ hits = <<>>
    /\ scoredResults = <<>>
    /\ topResults = <<>>
    /\ randomIndex = 0
    /\ selected = NoPhoto
    /\ queried = Query(<<>>, TermOf(stockSource, 1))

\* Mutant: the try/catch is around the loop, so a term that gives nothing
\* ends the call with null.
TermSkipped_Abort(o) ==
    /\ stockPc = "search"
    /\ stockPc' = "returned"
    /\ term' = 0
    /\ queried' = Answers(queried, "nothing")
    /\ UNCHANGED <<stockSource, hits, scoredResults, topResults, randomIndex, selected>>
    /\ UNCHANGED <<rvars, mvars, lvars, pvars, fvars>>

\* The search of the current term gave nothing usable: on to the next term;
\* after the last one, Unsplash returns null and Pixabay tries its last resort.
TermSkipped(o) ==
    /\ stockPc = "search"
    /\ IF term < NumTerms(stockSource)
       THEN /\ term' = term + 1
            /\ queried' = Query(Answers(queried, "nothing"), TermOf(stockSource, term + 1))
            /\ UNCHANGED stockPc
       ELSE /\ term' = 0
            /\ IF stockSource = "pixabay"
               THEN /\ stockPc' = "lastresort"
                    /\ queried' = Query(Answers(queried, "nothing"), StockBird.common_name)
               ELSE /\ stockPc' = "returned"
                    /\ queried' = Answers(queried, "nothing")
    /\ UNCHANGED <<stockSource, hits, scoredResults, topResults, randomIndex, selected>>
    /\ UNCHANGED <<rvars, mvars, lvars, pvars, fvars>>

\* The search of the current term is answered with the results rs, and
\* Math.random() yields r / RandomGrain: score, sort, select, return.
TermResults(rs, r) ==
    /\ stockPc = "search"
    /\ stockPc' = "returned"
    /\ hits' = rs
    /\ scoredResults' = SortByScore(Scored(stockSource, rs))
    /\ topResults' = TopResults(scoredResults')
    /\ randomIndex' = RandomIndex(r, Len(topResults'), 3)
    /\ selected' = topResults'[randomIndex' + 1].photo
    /\ queried' = Answers(queried, "results")
    /\ UNCHANGED <<stockSource, term>>
    /\ UNCHANGED <<rvars, mvars, lvars, pvars, fvars>>

\* The last-resort search of fetchPixabayImage gave nothing usable.
LastResortSkipped(o) ==
    /\ stockPc = "lastresort"
    /\ stockPc' = "returned"
    /\ queried' = Answers(queried, "nothing")
    /\ UNCHANGED <<stockSource, term, hits, scoredResults, topResults, randomIndex, selected>>
    /\ UNCHANGED <<rvars, mvars, lvars, pvars, fvars>>

\* The last-resort search is answered with the hits rs: one of the first five
\* is returned, as Math.random() chooses.
LastResortResults(rs, r) ==
    /\ stockPc = "lastresort"
    /\ stockPc' = "returned"
    /\ hits' = rs
    /\ randomIndex' = RandomIndex(r, Len(rs), 5)
    /\ selected' = rs[randomIndex' + 1]
    /\ queried' = Answers(queried, "results")
    /\ UNCHANGED <<stockSource, term, scoredResults, topResults>>
    /\ UNCHANGED <<rvars, mvars, lvars, pvars, fvars>>

NextStock ==
    \/ \E o \in SkipKinds : TermSkipped(o)
    \/ \E rs \in ResultLists(stockSource) : \E r \in 0..(RandomGrain - 1) : TermResults(rs, r)
    \/ \E o \in SkipKinds : LastResortSkipped(o)
    \/ \E rs \in ResultLists("pixabay") : \E r \in 0..(RandomGrain - 1) : LastResortResults(rs, r)

SpecStock == InitStock /\ [][NextStock]_vars

(***************************************************************************)
(* src/unnamed/part_002: loadBirds, the birds of a category in parallel    *)
(***************************************************************************)
\* What a strategy function called for one bird comes back with: nothing, an
\* exception, or an image, x or y, of the response to that call.
ImageContents == {"x", "y"}

ParOutcomes == {"null", "throw"} \cup ImageContents

\* The candidate fetchBirdImage returns for the image c of source src.
SourceResultOf(src, c) == [SourceResult(src) EXCEPT !.url = [site |-> src, query |-> <<c>>]]

\* createBirdCard(commonName, scientificName, imageResult) of part_002.
createImageCard(commonName, scientificName, imageResult) ==
    [kind |-> "card", name |-> commonName, sci |-> scientificName,
     src |-> imageResult.url, source |-> imageResult.source,
     attribution |-> imageResult.attribution]

\* The category header.
ParHeading(category) ==
    [kind |-> "category", name |-> category, sci |-> <<>>, src |-> ImageUrl("none"),
     source |-> "none", attribution |-> "null"]

ParPlain(kind) == [ParHeading(<<>>) EXCEPT !.kind = kind]

NoCard == ParPlain("none")

\* The async callback of birds.map for one bird, at its first await:
\* fetchBirdImage(bird.common_name, bird.scientific_name, 'wikipedia').
TaskStart(bird) ==
    [name |-> bird.common_name, sci |-> bird.scientific_name, stage |-> "preferred",
     calls |-> <<[source |-> "wikipedia", out |-> "pending"]>>,
     result |-> NoCandidate, card |-> NoCard]

\* The source fetchBirdImage asks after the try block st gave nothing.
NextSource(st) ==
    CASE st = "preferred" -> "wikipedia"
      [] st = "wikipedia" -> "pixabay"
      [] st = "pixabay" -> "unsplash"

\* The callback of task t ends: fetchBirdImage returned candidate r, and the
\* card is created from it.
TaskDone(t, o, r) ==
    [t EXCEPT !.stage = "done", !.calls = Marked(t.calls, o), !.result = r,
              !.card = createImageCard(t.name, t.sci, r)]

\* Mutant: the candidate is kept in a variable shared by the callbacks, the card
\* is created from the candidate of the image that arrived last.
TaskReturns_Shared(ts, b, o) ==
    LET t == ts[b]
        src == t.calls[Len(t.calls)].source
    IN  IF o \in ImageContents
        THEN TaskDone(t, o, SourceResultOf(src, o))
        ELSE IF t.stage = "unsplash"
             THEN LET got == { c \in DOMAIN ts : ts[c].result # NoCandidate }
                  IN  TaskDone(t, o, IF got = {} THEN Placeholder(t.name)
                                     ELSE ts[CHOOSE c \in got : TRUE].result)
             ELSE [t EXCEPT !.stage = NextSource(t.stage),
                            !.calls = Append(Marked(t.calls, o),
                                             [source |-> NextSource(t.stage), out |-> "pending"])]

\* The strategy function awaited by task b of the tasks ts comes back with o:
\* fetchBirdImage goes on as far as its next await or its return.
TaskReturns(ts, b, o) ==
    LET t == ts[b]
        src == t.calls[Len(t.calls)].source
    IN  IF o \in ImageContents
        THEN TaskDone(t, o, SourceResultOf(src, o))
        ELSE IF t.stage = "unsplash"
             THEN TaskDone(t, o, Placeholder(t.name))
             ELSE [t EXCEPT !.stage = NextSource(t.stage),
                            !.calls = Append(Marked(t.calls, o),
                                             [source |-> NextSource(t.stage), out |-> "pending"])]

\* Mutant: the cards come in the order in which the callbacks returned.
PromiseAll_AsSettled(ts) ==
    LET n == Len(ts)
        last == SubSeq(completed, Len(completed) - n + 1, Len(completed))
    IN  [i \in 1..n |-> ts[CHOOSE b \in 1..n : ts[b].name = last[i]].card]

\* await Promise.all(birdCardPromises): the cards the callbacks ts returned,
\* in the order of the promises, which is the order of the birds.
PromiseAll(ts) == [b \in 1..Len(ts) |-> ts[b].card]

\* loadBirds comes to category k of the data: its header is appended and the
\* callbacks of its birds are started; after the last category it returns.
EnterCategory(els, k) ==
    IF k <= Len(parData')
    THEN /\ parPc' = "category"
         /\ parCat' = k
         /\ parContainer' = Append(els, ParHeading(parData'[k].category))
         /\ tasks' = [b \in 1..Len(parData'[k].birds) |-> TaskStart(parData'[k].birds[b])]
    ELSE /\ parPc' = "finished"
         /\ parCat' = 0
         /\ parContainer' = els
         /\ tasks' = <<>>

\* loadBirds of part_002 has not been called.
InitPar ==
    /\ IdleResolver
    /\ IdleMulti
    /\ IdleLoad
    /\ IdleStock
    /\ IdleRefresh
    /\ parPc = "start"
    /\ parData = <<>>
    /\ parCat = 0
    /\ parContainer = <<>>
    /\ tasks = <<>>
    /\ completed = <<>>

\* loadBirds is called and awaits the fetch of the bird data.
ParLoadBirds ==
    /\ parPc = "start"
    /\ parPc' = "data_wait"
    /\ parContainer' = <<ParPlain("loading")>>
    /\ UNCHANGED <<parData, parCat, tasks, completed>>
    /\ UNCHANGED <<rvars, mvars, lvars, svars, fvars>>

\* The fetch of the bird data fails: the catch block.
ParDataFails(o) ==
    /\ parPc = "data_wait"
    /\ parPc' = "failed"
    /\ parContainer' = <<ParPlain("error")>>
    /\ UNCHANGED <<parData, parCat, tasks, completed>>
    /\ UNCHANGED <<rvars, mvars, lvars, svars, fvars>>

\* The bird data arrives: the first category is entered.
ParDataArrives(d) ==
    /\ parPc = "data_wait"
    /\ parData' = d
    /\ EnterCategory(<<>>, 1)
    /\ UNCHANGED completed
    /\ UNCHANGED <<rvars, mvars, lvars, svars, fvars>>

\* The strategy function awaited for bird b of the category comes back.
ParReturns(b, o) ==
    /\ parPc = "category"
    /\ tasks[b].stage # "done"
    /\ tasks' = [tasks EXCEPT ![b] = TaskReturns(tasks, b, o)]
    /\ completed' = IF tasks'[b].stage = "done"
                    THEN Append(completed, tasks[b].name)
                    ELSE completed
    /\ UNCHANGED <<parPc, parData, parCat, parContainer>>
    /\ UNCHANGED <<rvars, mvars, lvars, svars, fvars>>

\* Promise.all of the category is fulfilled: its cards are appended in the
\* order of the birds, and the next category is entered.
CategoryDone ==
    /\ parPc = "category"
    /\ \A b \in DOMAIN tasks : tasks[b].stage = "done"
    /\ UNCHANGED <<parData, completed>>
    /\ EnterCategory(parContainer \o PromiseAll(tasks), parCat + 1)
    /\ UNCHANGED <<rvars, mvars, lvars, svars, fvars>>

NextPar ==
    \/ ParLoadBirds
    \/ \E o \in DataFailures : ParDataFails(o)
    \/ \E d \in SampleData : ParDataArrives(d)
    \/ \E b \in DOMAIN tasks : \E o \in ParOutcomes : ParReturns(b, o)
    \/ CategoryDone

SpecPar == InitPar /\ [][NextPar]_vars

(***************************************************************************)
(* src/unnamed/part_002: refreshBirdImage, refreshes of one card           *)
(***************************************************************************)
\* How many times the image or the retry buttons of the card are clicked.
MaxRefreshes == 2

\* The bird of the card.
CardBird == B_QA

\* "https://placehold.co/300x200?text=Loading..."
LoadingUrl == [site |-> "placehold.co/300x200", query |-> <<"t","e","x","t","=","L","o","a","d","i","n","g",".",".",".">>]

\* The imageResult the card was created from by loadBirds.
InitialResults == { Placeholder(CardBird.common_name), SourceResultOf("wikipedia", "x") }

\* `result.source || 'unknown'`
SourceLabel(r) == IF r.source = "" THEN "unknown" ELSE r.source

\* The attribution element after a candidate r is shown: a Wikipedia or an
\* Unsplash credit is written and displayed, a candidate without attribution
\* hides the element and leaves its content.
Attributed(el, r) ==
    IF r.attribution # "null"
    THEN [display |-> "block",
          innerHTML |-> IF r.source \in {"wikipedia", "unsplash"}
                        THEN r.attribution ELSE el.innerHTML]
    ELSE [el EXCEPT !.display = "none"]

\* refreshBirdImage at its await: fetchBirdImage(birdName, scientificName, p)
\* has called its first strategy function.
RefreshStart(p) ==
    [stage |-> IF p # "none" THEN "preferred" ELSE "wikipedia",
     source |-> IF p # "none" THEN p ELSE "wikipedia",
     threw |-> FALSE,
     result |-> NoCandidate]

\* A refresh whose fetchBirdImage has not come back.
Waiting(t) == t.stage \notin {"done", "error"}

\* The strategy function awaited in refresh t comes back with o:
\* fetchBirdImage goes on to its next await, returns a candidate, or, where
\* no try block catches the exception, rejects.
Resumed(t, o) ==
    IF o \in ImageContents
    THEN [t EXCEPT !.stage = "done", !.result = SourceResultOf(t.source, o)]
    ELSE IF o = "throw" /\ ~Catches(t.stage)
         THEN [t EXCEPT !.stage = "error", !.threw = TRUE]
         ELSE IF t.stage = "unsplash"
              THEN [t EXCEPT !.stage = "done", !.threw = @ \/ o = "throw",
                             !.result = Placeholder(CardBird.common_name)]
              ELSE [t EXCEPT !.stage = NextSource(t.stage),
                             !.source = NextSource(t.stage),
                             !.threw = @ \/ o = "throw"]

\* createBirdCard has built the card from the candidate loadBirds resolved.
InitRefresh ==
    /\ IdleResolver
    /\ IdleMulti
    /\ IdleLoad
    /\ IdleStock
    /\ IdlePar
    /\ \E r \in InitialResults :
          /\ imgSrc = r.url
          /\ sourceIndicator = SourceLabel(r)
          /\ attributionElement =
                 IF r.attribution # "null"
                 THEN [display |-> "block", innerHTML |-> r.attribution]
                 ELSE [display |-> "none", innerHTML |-> "none"]
    /\ refreshes = <<>>

\* refreshBirdImage is called with preferredSource p: the loading image is
\* shown and fetchBirdImage is awaited.
Refresh(p) ==
    /\ imgSrc' = LoadingUrl
    /\ refreshes' = Append(refreshes, RefreshStart(p))
    /\ UNCHANGED <<sourceIndicator, attributionElement>>
    /\ UNCHANGED <<rvars, mvars, lvars, svars, pvars>>

\* The image of the card is clicked.
ImageClicked ==
    /\ Len(refreshes) < MaxRefreshes
    /\ Refresh("none")

\* The retry button of source src is clicked.
RetryClicked(src) ==
    /\ Len(refreshes) < MaxRefreshes
    /\ Refresh(src)

\* The strategy function awaited in the n-th refresh comes back with o; when
\* that ends fetchBirdImage, refreshBirdImage shows the candidate, or, if
\* fetchBirdImage rejected, its catch block shows the error state.
StrategyCameBack(n, o) ==
    /\ n \in DOMAIN refreshes
    /\ Waiting(refreshes[n])
    /\ LET t == Resumed(refreshes[n], o)
       IN  /\ refreshes' = [refreshes EXCEPT ![n] = t]
           /\ CASE t.stage = "done" ->
                     /\ imgSrc' = t.result.url
                     /\ sourceIndicator' = SourceLabel(t.result)
                     /\ attributionElement' = Attributed(attributionElement, t.result)
                [] t.stage = "error" ->
                     /\ imgSrc' = MultiPlaceholderUrl(CardBird.common_name)
                     /\ sourceIndicator' = "error"
                     /\ attributionElement' = [attributionElement EXCEPT !.display = "none"]
                [] OTHER ->
                     UNCHANGED <<imgSrc, sourceIndicator, attributionElement>>
    /\ UNCHANGED <<rvars, mvars, lvars, svars, pvars>>

NextRefresh ==
    \/ ImageClicked
    \/ \E src \in {"wikipedia", "unsplash", "pixabay"} : RetryClicked(src)
    \/ \E n \in DOMAIN refreshes : \E o \in ParOutcomes : StrategyCameBack(n, o)

SpecRefresh == InitRefresh /\ [][NextRefresh]_vars

\* Every request completes or fails: the strategy function a refresh awaits
\* eventually comes back.
SpecRefreshFair ==
    SpecRefresh /\ \A n \in 1..MaxRefreshes : WF_vars(\E o \in ParOutcomes : StrategyCameBack(n, o))

(***************************************************************************)
(* Claims about the resolver of src/script.js (checked under Spec)         *)
(***************************************************************************)
Range(f) == { f[i] : i \in DOMAIN f }

FourKeywords == {W_map, W_distribution, W_range, W_diagram}

SevenKeywords == FourKeywords \cup {W_icon, W_logo, W_wiki}

\* The title, compared case-insensitively, ends in .jpg, .jpeg or .png.
AllowedExtension(title) ==
    \E e \in {W_jpg, W_jpeg, W_png} : endsWith(toLowerCase(title), e)

\* The title, compared case-insensitively, contains a keyword of K.
HasKeyword(title, K) == \E k \in K : includes(toLowerCase(title), k)

\* The members of a list response that the stated filter keeps, in order.
Passing(titles) ==
    SelectSeq(Items(titles),
              LAMBDA it : AllowedExtension(it.title) /\ ~HasKeyword(it.title, FourKeywords))

FromCommons(c) == c.source \in {"category", "search"}

\* C1: fetchBirdImagesWithFallback never raises: whatever the requests are
\* answered with, no exception leaves the call, the call is never stuck before
\* it returns, and it returns a list of candidates (possibly empty).
C1_NeverRaises ==
    /\ ~raised
    /\ pc \in {"call", "fetch", "wait", "done"}
    /\ pc # "done" => ENABLED Next
    /\ pc = "done" => Len(result) \in 0..MaxImages

\* C1 witness: the call returned although the category lookup and the
\* Wikipedia summary were both rejected or refused.
C1_Witness ==
    /\ pc = "done"
    /\ log = <<"category", "summary">>
    /\ failed = {"category", "summary"}
    /\ ~anyOk

\* C3 (as stated): when every request fails, the call returns exactly one
\* candidate, the placeholder.
C3_ReturnsPlaceholder ==
    ~anyOk =>
        /\ ~raised
        /\ pc = "done" => Len(result) = 1 /\ result[1].source = "placeholder"

\* C3 (amended): when every request fails (is rejected or answered with a
\* non-success status), the call raises nothing and returns the empty list.
C3_ReturnsEmpty ==
    ~anyOk =>
        /\ ~raised
        /\ pc # "crashed"
        /\ pc = "done" => result = <<>>

\* C3 witness: the call returned after every one of its requests failed.
C3_Witness ==
    /\ pc = "done"
    /\ ~anyOk
    /\ Len(log) >= 2
    /\ Range(log) \subseteq failed

\* C5: the requests of one resolution follow the order category lookup,
\* Commons search, Wikipedia summary, Wikipedia search, and a request of a
\* strategy leaves only while every earlier strategy holds no candidate for
\* its caller.
C5_OrderedFallback ==
    /\ \A i, j \in DOMAIN log : i < j => StrategyOf(log[i]) <= StrategyOf(log[j])
    /\ \A i \in DOMAIN log : \A s \in 1..4 : s < StrategyOf(log[i]) => produced[s] = 0

\* C5 witness: all four strategies were tried, the last one supplied the image.
C5_Witness ==
    /\ pc = "done"
    /\ {"catinfo", "sinfo", "summary", "page"} \subseteq Range(log)
    /\ result # <<>>

\* C6 (as stated): a failed category lookup is followed by the Commons search,
\* a failed Commons search by the Wikipedia summary, and a failed Wikipedia
\* summary by the Wikipedia search.
C6_FailureFallsThrough ==
    pc = "done" =>
        /\ "category" \in failed => "search" \in Range(log)
        /\ "search" \in failed => "summary" \in Range(log)
        /\ "summary" \in failed => "wsearch" \in Range(log)

\* C7: when the category lookup returns k titles that pass the filter
\* (1 <= k <= 5) among excluded ones and every image-info request succeeds, the
\* call returns exactly those k candidates in response order and no request of
\* a later strategy is made.
C7_CategoryOnly ==
    LET keep == Passing(members.titles)
    IN  ( /\ pc = "done"
          /\ members.from = "category"
          /\ Len(keep) \in 1..MaxImages
          /\ "catinfo" \notin failed \cup empties )
        => /\ result = [i \in 1..Len(keep) |-> CommonsImage(keep[i], "category")]
           /\ \A i \in DOMAIN log : StrategyOf(log[i]) = 1

\* C7 witness: three passing and two excluded titles, three candidates returned.
C7_Witness ==
    /\ pc = "done"
    /\ members.from = "category"
    /\ Len(members.titles) = 5
    /\ Len(Passing(members.titles)) = 3
    /\ "catinfo" \notin failed \cup empties
    /\ Len(result) = 3

\* C8: every candidate of the two Commons strategies comes from a title that,
\* compared case-insensitively, ends in .jpg, .jpeg or .png and contains none
\* of map, distribution, range, diagram.
C8_CandidatesPassFilter ==
    \A c \in Range(images) \cup Range(result) :
        FromCommons(c) =>
            AllowedExtension(c.title) /\ ~HasKeyword(c.title, FourKeywords)

\* C8 witness: the Commons search returned a candidate whose extension is
\* written in upper case.
C8_Witness ==
    /\ pc = "done"
    /\ \E c \in Range(result) :
          c.source = "search" /\ c.title = <<"a","r","a",".","J","P","G">>

\* C9 (as stated): no returned Commons candidate has a title containing one of
\* map, distribution, range, diagram, icon, logo, wiki.
C9_SevenKeywordsExcluded ==
    \A c \in Range(images) \cup Range(result) :
        FromCommons(c) => ~HasKeyword(c.title, SevenKeywords)

\* C9 (amended): the filter of both Commons loops keeps exactly the titles with
\* an allowed extension that contain none of map, distribution, range, diagram;
\* a title containing icon, logo or wiki is kept.
C9_FourKeywordsExcluded ==
    members.from # "none" => filtered = Passing(members.titles)

\* C9 witness: the category loop runs over a title that contains icon, logo or
\* wiki.
C9_Witness ==
    /\ members.from = "category"
    /\ req = "catinfo"
    /\ \E i \in DOMAIN filtered :
          HasKeyword(filtered[i].title, {W_icon, W_logo, W_wiki})

(***************************************************************************)
(* Claims about fetchBirdImage of part_002 (checked under SpecMulti)       *)
(***************************************************************************)
\* The character a percent escape stands for.
Unescape(h, l) ==
    LET c == { x \in DOMAIN Escapes : Escapes[x] = <<"%", h, l>> }
    IN  IF c = {} THEN "?" ELSE CHOOSE x \in c : TRUE

\* Percent-decoding of a query value, as the placeholder service reads it.
RECURSIVE PercentDecode(_)
PercentDecode(s) ==
    IF s = <<>> THEN <<>>
    ELSE IF Head(s) = "%" /\ Len(s) >= 3
         THEN <<Unescape(s[2], s[3])>> \o PercentDecode(SubSeq(s, 4, Len(s)))
         ELSE <<Head(s)>> \o PercentDecode(Tail(s))

\* The query up to its first separator.
RECURSIVE FirstParameter(_)
FirstParameter(q) ==
    IF q = <<>> \/ Head(q) \in {"&", "#"} THEN <<>>
    ELSE <<Head(q)>> \o FirstParameter(Tail(q))

\* The text a placeholder URL makes the service draw: the decoded value of
\* its parameter `text`.
PlaceholderText(url) ==
    LET p == FirstParameter(url.query)
    IN  PercentDecode(SubSeq(p, 6, Len(p)))

IsPlaceholderFor(url, name) ==
    /\ url.site = "placehold.co/300x200"
    /\ SubSeq(url.query, 1, 5) = <<"t","e","x","t","=">>
    /\ PlaceholderText(url) = name

\* C2: every call of fetchBirdImage ends with a candidate that has a URL,
\* whatever the strategies come back with (image, null, exception); when no
\* strategy supplied an image, the candidate is the placeholder built from the
\* bird's common name, with source 'placeholder'.
C2_AlwaysACandidate ==
    /\ ~mraised
    /\ mpc \in {"call", "wait", "returned"}
    /\ mpc # "returned" => ENABLED NextMulti
    /\ mpc = "returned" =>
          /\ "url" \in DOMAIN mresult
          /\ (\A i \in DOMAIN calls : calls[i].out # "image") =>
                /\ mresult.source = "placeholder"
                /\ IsPlaceholderFor(mresult.url, birdName)

\* C2 witness: started as loadBirds starts it, with every strategy tried and
\* none supplying an image, for a name that needs escaping.
C2_Witness ==
    /\ mpc = "returned"
    /\ preferred = "wikipedia"
    /\ birdName = N_QA
    /\ Len(calls) = 4
    /\ \A i \in DOMAIN calls : calls[i].out \in {"null", "throw"}
    /\ \E i \in DOMAIN calls : calls[i].out = "throw"

(***************************************************************************)
(* Claims about the page of script.js (checked under SpecLoad)             *)
(***************************************************************************)
\* The birds of the data, in document order.
RECURSIVE AllBirds(_)
AllBirds(categories) ==
    IF categories = <<>> THEN <<>>
    ELSE Head(categories).birds \o AllBirds(Tail(categories))

\* C4: a card whose bird has not been resolved yet, or was resolved to no
\* candidate at all, shows the placeholder image whose text is the common
\* name of its bird in the data; so the card of a bird without candidates
\* shows it from the first render on, through the second pass, image load
\* failures and filtering, until loading has finished and after.
C4_PlaceholderUntilResolved ==
    LET bs == AllBirds(data)
        cs == Cards(container)
    IN  /\ Len(cs) = Len(bs)
        /\ \A k \in DOMAIN cs :
              container[cs[k]].resolved # "images" =>
                  IsPlaceholderFor(container[cs[k]].src, bs[k].common_name)

\* C4 witness: loading has finished; a bird whose name needs escaping was
\* resolved to no candidate, another card was given its resolved image.
C4_Witness ==
    /\ lpc = "finished"
    /\ \E i \in DOMAIN container :
          /\ container[i].kind = "card"
          /\ container[i].name = N_QA
          /\ container[i].resolved = "empty"
    /\ \E i \in DOMAIN container :
          /\ container[i].kind = "card"
          /\ container[i].resolved = "images"
          /\ container[i].src = Candidate(1).url

IsShown(i) == container[i].display = ""

\* The cards between the heading at position i and the next heading.
CardsUnder(i) ==
    { j \in (i + 1)..Len(container) :
          /\ container[j].kind = "card"
          /\ \A k \in (i + 1)..(j - 1) : container[k].kind # "category" }

\* The visibility the filter text calls for.
VisibilityMatchesFilter ==
    \A i \in DOMAIN container :
        /\ container[i].kind = "card" =>
              (IsShown(i) <=> includes(toLowerCase(container[i].name), toLowerCase(filterText)))
        /\ container[i].kind = "category" =>
              (IsShown(i) <=> \E j \in CardsUnder(i) : IsShown(j))

\* C10: when an input event of the filter box has been handled, whatever the
\* text, a card is visible iff its lowercased name contains the lowercased
\* text, and a category heading is visible iff one of the cards between it
\* and the next heading is visible.
C10_FilterVisibility ==
    [][(\E q \in Queries : FilterInput(q)) => VisibilityMatchesFilter']_vars

\* C10 witness: an upper-case text has been handled and has left one card
\* visible and another hidden, one heading visible and another hidden.
C10_Witness ==
    /\ filterText = <<"A","N">>
    /\ VisibilityMatchesFilter
    /\ \E i, j \in DOMAIN container :
          /\ container[i].kind = "card" /\ IsShown(i)
          /\ container[j].kind = "card" /\ ~IsShown(j)
    /\ \E i, j \in DOMAIN container :
          /\ container[i].kind = "category" /\ IsShown(i)
          /\ container[j].kind = "category" /\ ~IsShown(j)

\* The position of the next candidate after the one at index i, of n.
NextIndex(i, n) == IF i + 1 = n THEN 0 ELSE i + 1

\* C11: for a card that holds N > 1 candidates, the index is within 0..N-1 and
\* a displayed candidate is the one at the index; one click on the image makes
\* the card show the next candidate, the first one after the last; N clicks
\* in a row bring back the index and the candidate of before.
C11_ClickCycles ==
    \A i \in DOMAIN container :
        LET card == container[i]
            N == Len(card.images)
        IN  (card.kind = "card" /\ N > 1) =>
                /\ card.index \in 0..(N - 1)
                /\ card.src \in {card.images[card.index + 1].url, PlaceholderUrl(card.name)}
                /\ ClickEvent(card).index = NextIndex(card.index, N)
                /\ ClickEvent(card).src = card.images[NextIndex(card.index, N) + 1].url
                /\ LET RECURSIVE Clicks(_, _)
                       Clicks(c, n) == IF n = 0 THEN c ELSE Clicks(ClickEvent(c), n - 1)
                   IN  /\ Clicks(card, N).index = card.index
                       /\ Clicks(card, N).src = card.images[card.index + 1].url

\* C11 witness: loading has finished and a click has moved a card from its
\* first candidate to its second.
C11_Witness ==
    /\ lpc = "finished"
    /\ \E i \in DOMAIN container :
          /\ container[i].kind = "card"
          /\ Len(container[i].images) > 1
          /\ container[i].index = 1
          /\ container[i].src = Candidate(2).url

\* C12 (as stated): the error handler assigns the placeholder at most once per
\* failing image; when the placeholder itself fails to load, the handler does
\* not assign the image source again.
C12_OneLevelFallback == ~reloads

\* The cards of the container are those of the birds of the data, in order.
EveryBirdHasACard ==
    LET bs == AllBirds(data)
        cs == Cards(container)
    IN  /\ Len(cs) = Len(bs)
        /\ \A k \in DOMAIN cs : container[cs[k]].name = bs[k].common_name

\* The first n cards have been through the second pass.
Processed(n) ==
    \A k \in 1..n : container[Cards(container)[k]].resolved # "no"

SecondPassDone ==
    /\ lpc = "finished"
    /\ Processed(Len(Cards(container)))

\* C13: once the data is loaded every bird has its card; whatever the earlier
\* cards' resolutions gave (images, nothing, an exception), the second pass
\* is at the next card, with every card before it processed; and when every
\* request completes or fails, the second pass finishes with every card
\* processed.
C13_NoCardBlocksTheOthers ==
    /\ [](lpc \in {"timer", "resolve_wait", "delay", "finished"} => EveryBirdHasACard)
    /\ [](lpc = "resolve_wait" => Processed(cardIdx - 1))
    /\ [](lpc = "delay" => Processed(cardIdx))
    /\ [](lpc = "finished" => Processed(Len(Cards(container))))
    /\ (lpc = "timer" ~> SecondPassDone)

\* C13 witness: the second pass has finished; the resolution of the first
\* card threw, and the card after it was still given its images.
C13_Witness ==
    /\ SecondPassDone
    /\ \E i, j \in DOMAIN container :
          /\ i < j
          /\ container[i].resolved = "threw"
          /\ container[j].resolved = "images"
          /\ container[j].src = Candidate(1).url

\* C14: when the fetch of the bird data is rejected, answered with a
\* non-success status or not parsable, the container shows the page-level
\* error message and nothing else, there is no card, no resolution has been
\* started, and it stays so whatever happens next.
C14_DataFailureShowsError ==
    /\ [](lpc = "failed" =>
             /\ container = <<Plain("error")>>
             /\ Cards(container) = <<>>
             /\ started = 0)
    /\ [][lpc = "failed" => lpc' = "failed"]_vars

\* C14 witness: the load has failed and the filter box has been used since.
C14_Witness ==
    /\ lpc = "failed"
    /\ container = <<Plain("error")>>
    /\ filterText # <<>>

\* Every card is as the first pass rendered it: unresolved, with its
\* placeholder image.
AllCardsArePlaceholders ==
    \A k \in DOMAIN Cards(container) :
        LET card == container[Cards(container)[k]]
        IN  /\ card.resolved = "no"
            /\ IsPlaceholderFor(card.src, card.name)

\* The step leaves every element except the one at position i as it is, and
\* the one at position i the card of the same bird.
OnlyPatches(i) ==
    /\ Len(container') = Len(container)
    /\ \A j \in DOMAIN container : j # i => container'[j] = container[j]
    /\ container'[i].kind = "card"
    /\ container'[i].name = container[i].name
    /\ container'[i].display = container[i].display

\* C15: loading has two passes. When the first resolution request is issued,
\* and as long as none is, the card of every bird of every category is there
\* with its placeholder image; afterwards no card is added or removed, and
\* the answer of a resolution changes nothing but the card it was asked for,
\* which then shows the first resolved image if there is one.
C15_TwoPasses ==
    /\ [](lpc = "timer" => (started = 0 /\ EveryBirdHasACard /\ AllCardsArePlaceholders))
    /\ [](started > 0 => EveryBirdHasACard)
    /\ [][started' # started => (started = 0 => AllCardsArePlaceholders)]_vars
    /\ [][\A imgs \in ResolverResults :
            Resolved(imgs) =>
                LET i == Cards(container)[cardIdx]
                IN  /\ OnlyPatches(i)
                    /\ imgs # <<>> => container'[i].src = imgs[1].url]_vars

\* C15 witness: the first card has been given its resolved image while a
\* later card still shows the placeholder of the first pass.
C15_Witness ==
    /\ lpc = "delay"
    /\ started = 1
    /\ LET cs == Cards(container)
       IN  /\ Len(cs) > 1
           /\ container[cs[1]].resolved = "images"
           /\ container[cs[1]].src = Candidate(1).url
           /\ container[cs[2]].resolved = "no"
           /\ IsPlaceholderFor(container[cs[2]].src, container[cs[2]].name)

\* The elements as rendered, before any filtering: all displayed.
Unfiltered(els) == [i \in DOMAIN els |-> [els[i] EXCEPT !.display = ""]]

\* C20: the filter keeps no state. An input event changes nothing but what is
\* displayed, and what an event with text q leaves is what it would leave on
\* the elements as first rendered, whatever text was entered and whatever was
\* hidden before; the same text entered again changes nothing, and entering
\* another text q1 first and then q gives the same as q directly.
C20_FilterIsStateless ==
    [][\A q \in Queries :
          FilterInput(q) =>
              /\ Unfiltered(container') = Unfiltered(container)
              /\ container' = Filtered(Unfiltered(container), q)
              /\ Filtered(container', q) = container'
              /\ \A q1 \in Queries : Filtered(Filtered(container, q1), q) = container']_vars

\* C20 witness: after other texts, the text O has been entered with cards
\* loaded: a card and a heading that it hides, a card and a heading it shows.
C20_Witness ==
    /\ filterText = <<"O">>
    /\ container = Filtered(Unfiltered(container), <<"O">>)
    /\ \E i, j \in DOMAIN container :
          /\ container[i].kind = "card" /\ container[i].name = N_Ani /\ ~IsShown(i)
          /\ container[j].kind = "card" /\ container[j].name = N_RedOwl /\ IsShown(j)
    /\ \E i, j \in DOMAIN container :
          /\ container[i].kind = "category" /\ ~IsShown(i)
          /\ container[j].kind = "category" /\ IsShown(j)

(***************************************************************************)
(* More claims about the resolver of script.js (checked under Spec)        *)
(***************************************************************************)
\* C16: within one resolution at most one request is outstanding at any
\* time, the resolution waits exactly while one is, and a request leaves only
\* when every request issued before it, of the same step or of an earlier
\* one, has been answered or has failed.
C16_SequentialRequests ==
    /\ [](inflight \in 0..1)
    /\ [](inflight = 1 <=> pc = "wait")
    /\ [][inflight' > inflight => (inflight = 0 /\ inflight' = 1)]_vars
    /\ [][Len(log') > Len(log) => inflight = 0]_vars

\* C16 witness: a request of the Commons search is outstanding after three
\* requests of the category strategy have been answered.
C16_Witness ==
    /\ pc = "wait"
    /\ inflight = 1
    /\ Len(log) >= 4
    /\ StrategyOf(log[Len(log)]) = 2
    /\ \A i \in 1..(Len(log) - 1) : StrategyOf(log[i]) = 1

(***************************************************************************)
(* Claims about loadBirds of part_002 (checked under SpecPar)              *)
(***************************************************************************)
\* The calls of a history that were answered with an image.
Supplied(cs) == { i \in DOMAIN cs : cs[i].out \in ImageContents }

\* Candidate r is what the answers cs to a bird's own calls determine: the
\* image of the one call that supplied an image, with that call's source, or
\* the placeholder of the bird when no call supplied one.
OwnCandidate(r, name, cs) ==
    IF Supplied(cs) = {}
    THEN /\ r.source = "placeholder"
         /\ IsPlaceholderFor(r.url, name)
    ELSE \E i \in Supplied(cs) :
            /\ Supplied(cs) = {i}
            /\ r.source = cs[i].source
            /\ r.url = [site |-> cs[i].source, query |-> <<cs[i].out>>]

\* The card shows candidate r for the bird of that name.
CardOf(card, r, name) ==
    /\ card.kind = "card"
    /\ card.name = name
    /\ card.src = r.url
    /\ card.source = r.source

\* C17: the birds of a category are resolved concurrently without shared
\* state. In every interleaving, the candidate and the card of a finished
\* bird are those determined by the answers to that bird's own calls; an
\* answer for one bird changes nothing of another bird's resolution; and the
\* cards appended for the category are those cards.
C17_NoSharedState ==
    /\ [](\A b \in DOMAIN tasks :
             /\ tasks[b].name = parData[parCat].birds[b].common_name
             /\ tasks[b].stage = "done" =>
                   /\ OwnCandidate(tasks[b].result, tasks[b].name, tasks[b].calls)
                   /\ CardOf(tasks[b].card, tasks[b].result, tasks[b].name))
    /\ [][\A b \in DOMAIN tasks : \A o \in ParOutcomes :
             ParReturns(b, o) =>
                 \A c \in DOMAIN tasks \ {b} : tasks'[c] = tasks[c]]_vars
    /\ [][CategoryDone =>
             \A b \in DOMAIN tasks :
                 LET card == parContainer'[Len(parContainer) + b]
                 IN  \E r \in {tasks[b].result} :
                        /\ OwnCandidate(r, tasks[b].name, tasks[b].calls)
                        /\ CardOf(card, r, parData[parCat].birds[b].common_name)]_vars

\* C17 witness: of two birds resolved side by side, the first was given image
\* x by its last strategy, the second, whose calls all came to nothing, one of
\* them with an exception, has the placeholder.
C17_Witness ==
    /\ parPc = "category"
    /\ Len(tasks) = 2
    /\ tasks[1].stage = "done" /\ tasks[2].stage = "done"
    /\ tasks[1].result.source = "unsplash"
    /\ tasks[1].card.src = [site |-> "unsplash", query |-> <<"x">>]
    /\ tasks[2].card.source = "placeholder"
    /\ \E i \in DOMAIN tasks[2].calls : tasks[2].calls[i].out = "throw"

(***************************************************************************)
(* Claims about the stock-photo functions of part_002 (under SpecStock)    *)
(***************************************************************************)
\* The highest score among the results rs of source src.
HighestScore(src, rs) ==
    CHOOSE m \in { Score(src, rs[i]) : i \in DOMAIN rs } :
        \A i \in DOMAIN rs : Score(src, rs[i]) <= m

\* How often photo p occurs in the list rs.
Occurrences(p, rs) == Cardinality({ i \in DOMAIN rs : rs[i] = p })

\* The sorted list ranks exactly the results of the answer, highest first.
IsRanking(sorted, src, rs) ==
    /\ Len(sorted) = Len(rs)
    /\ \A p \in ResultsOf(src) :
          Occurrences(p, [i \in DOMAIN sorted |-> sorted[i].photo]) = Occurrences(p, rs)
    /\ \A i \in DOMAIN sorted : sorted[i].score = Score(src, sorted[i].photo)
    /\ \A i, j \in DOMAIN sorted : i < j => sorted[i].score >= sorted[j].score

\* The call has returned a result chosen from a scored list.
ReturnedScored == stockPc = "returned" /\ scoredResults # <<>>

\* The call has returned a hit of the last-resort search of Pixabay.
ReturnedLastResort == stockPc = "returned" /\ hits # <<>> /\ scoredResults = <<>>

\* C18 (as stated): whenever a result is selected from a non-empty list, it
\* is one of the three highest-ranked of that list and its score is within 2
\* points of the list's highest score.
C18_TopThreeWithinTwo ==
    (stockPc = "returned" /\ hits # <<>>) =>
        /\ randomIndex + 1 <= 3
        /\ Score(stockSource, selected) >= HighestScore(stockSource, hits) - Points(2)

\* C18 (amended): a result selected from a scored list is, for every list and
\* every draw, one of the three highest-ranked results, within 2 points of
\* the highest score, and the index is within the list it indexes; the
\* last-resort search of Pixabay has no scores and returns one of the first
\* five hits, the index within the list.
C18_SelectionPolicy ==
    /\ ReturnedScored =>
          /\ IsRanking(scoredResults, stockSource, hits)
          /\ randomIndex + 1 \in DOMAIN topResults
          /\ randomIndex + 1 <= 3
          /\ selected = scoredResults[randomIndex + 1].photo
          /\ Score(stockSource, selected) >= HighestScore(stockSource, hits) - Points(2)
    /\ ReturnedLastResort =>
          /\ stockSource = "pixabay"
          /\ randomIndex + 1 \in DOMAIN hits
          /\ randomIndex + 1 <= 5
          /\ selected = hits[randomIndex + 1]

\* C18 witness: four results, all within 2 points of the top; the draw picked
\* the third, which has a lower score than the first.
C18_Witness ==
    /\ ReturnedScored
    /\ Len(hits) = 4
    /\ Len(topResults) = 4
    /\ randomIndex = 2
    /\ selected = topResults[3].photo
    /\ topResults[3].score < topResults[1].score

\* The text s occurs in the text t, case-insensitively.
Occurs(s, t) == includes(toLowerCase(t), toLowerCase(s))

\* The keywords that occur in one of the texts ts.
KeywordsIn(ts) == { k \in DOMAIN birdKeywords : \E t \in ts : Occurs(birdKeywords[k], t) }

Worth(n, b) == IF b THEN Points(n) ELSE 0

\* The part of the score that comes from the texts ts searched for the names
\* and the texts tagTexts searched for keywords.
TextScore(ts, tagTexts) ==
    Worth(10, \E t \in ts : Occurs(StockBird.common_name, t))
    + Worth(15, \E t \in ts : Occurs(StockBird.scientific_name, t))
    + Points(2) * Cardinality(KeywordsIn(tagTexts))
    + Worth(5, \E t \in ts \cup tagTexts : Occurs(K_costa_rica, t))

\* The score without the like and resolution bonuses.
BaseScore(src, p) ==
    IF src = "unsplash"
    THEN TextScore({p.description, p.alt_description},
                   { p.tagList[i] : i \in DOMAIN p.tagList })
    ELSE TextScore({p.tags}, {p.tags})

\* C19 (as stated): beyond the points for names, keywords and locale, the
\* score holds only a bonus that is scaled from the like count, so none
\* without likes and the same for the same likes, and is at most 5 points.
C19_OnlyLikesBonus ==
    \A i, j \in DOMAIN scoredResults :
        LET bonus(k) == scoredResults[k].score - BaseScore(stockSource, scoredResults[k].photo)
        IN  /\ bonus(i) \in 0..Points(5)
            /\ scoredResults[i].photo.likes = 0 => bonus(i) = 0
            /\ scoredResults[i].photo.likes = scoredResults[j].photo.likes => bonus(i) = bonus(j)

\* C19 (amended): the score is exactly the points for names, keywords and
\* locale plus, for Unsplash, likes/10 capped at 5 and, for Pixabay, likes/50
\* capped at 3 and 2 more points for an image wider than 1600.
C19_ScoreFormula ==
    \A i \in DOMAIN scoredResults :
        LET p == scoredResults[i].photo
        IN  scoredResults[i].score =
                BaseScore(stockSource, p)
                + (IF stockSource = "unsplash"
                   THEN (IF p.likes >= 50 THEN Points(5) ELSE (p.likes * PointUnits) \div 10)
                   ELSE (IF p.likes >= 150 THEN Points(3) ELSE (p.likes * PointUnits) \div 50)
                        + Worth(2, p.imageWidth > 1600))

\* C19 witness: Pixabay hits have been scored, one with the capped like bonus
\* and no resolution bonus, one with a part of the like bonus and the
\* resolution bonus, one with the resolution bonus alone.
C19_Witness ==
    /\ ReturnedScored
    /\ stockSource = "pixabay"
    /\ \E i, j, k \in DOMAIN scoredResults :
          /\ scoredResults[i].photo.id = "h3" /\ scoredResults[i].score = Points(14)
          /\ scoredResults[j].photo.id = "h2" /\ scoredResults[j].score = Points(28) + 25
          /\ scoredResults[k].photo.id = "h4" /\ scoredResults[k].score = Points(12)

(***************************************************************************)
(* More claims about fetchBirdImage of part_002 (checked under SpecMulti)  *)
(***************************************************************************)
\* The number of times the strategy function of source src has been called.
TimesInvoked(src) == Cardinality({ i \in DOMAIN calls : calls[i].source = src })

\* C21: during one call of fetchBirdImage, with or without a preferred
\* source, each source strategy (Wikipedia, Pixabay, Unsplash) is invoked at
\* most once.  The code does not keep this: the default flow starts over with
\* Wikipedia after the preferred source gave nothing, so the preferred source
\* is asked a second time.
C21_EachSourceAtMostOnce ==
    \A src \in {"wikipedia", "pixabay", "unsplash"} : TimesInvoked(src) <= 1

\* The order in which fetchBirdImage asks the sources.
Chain ==
    IF preferred # "none"
    THEN <<preferred, "wikipedia", "pixabay", "unsplash">>
    ELSE <<"wikipedia", "pixabay", "unsplash">>

\* C22: fetchBirdImage tries the preferred source first when one is given;
\* when it yields nothing or throws, the sources are tried in the order
\* Wikipedia, Pixabay, Unsplash; the first source that supplies an image
\* ends the call, no later source is queried, and the 'source' field of the
\* result names the source that supplied the image, not the preferred one.
C22_FirstSupplierWins ==
    /\ Len(calls) <= Len(Chain)
    /\ \A i \in DOMAIN calls : calls[i].source = Chain[i]
    /\ \A i \in DOMAIN calls : i < Len(calls) => calls[i].out \in {"null", "throw"}
    /\ mpc = "wait" => calls # <<>> /\ calls[Len(calls)].out = "pending"
    /\ mpc = "returned" =>
          /\ calls # <<>>
          /\ IF calls[Len(calls)].out = "image"
             THEN /\ mresult = SourceResult(Chain[Len(calls)])
                  /\ mresult.source = calls[Len(calls)].source
             ELSE /\ Len(calls) = Len(Chain)
                  /\ calls[Len(calls)].out \in {"null", "throw"}
                  /\ mresult.source = "placeholder"

\* C22 witness: Unsplash was preferred and threw, Wikipedia had nothing,
\* Pixabay supplied the image and the call ended without a second Unsplash
\* call.
C22_Witness ==
    /\ mpc = "returned"
    /\ preferred = "unsplash"
    /\ Len(calls) = 3
    /\ calls[1].out = "throw"
    /\ calls[2].out = "null"
    /\ calls[3].out = "image"
    /\ mresult.source = "pixabay"

C24_FilterGovernsRenderedCards ==
    \A i \in DOMAIN container :
        container[i].kind = "card" =>
            (IsShown(i) <=> includes(toLowerCase(container[i].name), toLowerCase(filterText)))

(***************************************************************************)
(* More claims about loadBirds of part_002 (checked under SpecPar)         *)
(***************************************************************************)
\* The kind and the name of each child of the container.
Shape(els) == [i \in DOMAIN els |-> <<els[i].kind, els[i].name>>]

\* The container after the first k categories of the data d: for each its
\* heading, then one card per bird in the order of the data.
RECURSIVE Layout(_, _)
Layout(d, k) ==
    IF k = 0 THEN <<>>
    ELSE Layout(d, k - 1)
         \o << <<"category", d[k].category>> >>
         \o [b \in 1..Len(d[k].birds) |-> <<"card", d[k].birds[b].common_name>>]

\* The position of the nearest heading before position i, 0 if there is none.
HeadingBefore(els, i) ==
    LET hs == { j \in 1..(i - 1) : els[j].kind = "category" }
    IN  IF hs = {} THEN 0 ELSE CHOOSE j \in hs : \A h \in hs : h <= j

\* C26: whatever the order in which the parallel resolutions of a category
\* complete, the cards of that category are appended after their category
\* heading in the order of the birds in the data, and no heading or card of a
\* later category is appended before every card of the earlier categories;
\* hence every card's nearest preceding heading is its own category's heading.
C26_CardsInDataOrder ==
    /\ parPc = "category" =>
          Shape(parContainer) =
              Layout(parData, parCat - 1) \o << <<"category", parData[parCat].category>> >>
    /\ parPc = "finished" => Shape(parContainer) = Layout(parData, Len(parData))
    /\ parPc \in {"category", "finished"} =>
          \A i \in DOMAIN parContainer :
              parContainer[i].kind = "card" =>
                  /\ HeadingBefore(parContainer, i) > 0
                  /\ \E k \in DOMAIN parData :
                        /\ parData[k].category =
                               parContainer[HeadingBefore(parContainer, i)].name
                        /\ \E b \in DOMAIN parData[k].birds :
                              parData[k].birds[b].common_name = parContainer[i].name

\* C26 witness: the callback of the second bird of a category returned before
\* the callback of the first, both cards are appended, and the next category
\* has been rendered after them.
C26_Witness ==
    /\ parPc = "finished"
    /\ completed = <<N_QA, N_Ani>>
    /\ Len(parContainer) = 4
    /\ parContainer[2].name = N_Ani
    /\ parContainer[3].name = N_QA
    /\ parContainer[4].kind = "category"

(***************************************************************************)
(* Claims about refreshBirdImage of part_002 (SpecRefresh, SpecRefreshFair) *)
(***************************************************************************)
\* The card shows the candidate r: its image, its source, its attribution.
Shows(r) ==
    /\ imgSrc = r.url
    /\ sourceIndicator = r.source
    /\ IF r.attribution = "null"
       THEN attributionElement.display = "none"
       ELSE attributionElement = [display |-> "block", innerHTML |-> r.attribution]

AllCompleted == \A n \in DOMAIN refreshes : ~Waiting(refreshes[n])

\* C25: when several refreshes of the same card overlap, then once all of
\* them have completed the card shows the image, source indicator and
\* attribution of the most recently started refresh, whatever the order in
\* which their requests complete.  The code does not keep this: each refresh
\* writes to the card when its own fetchBirdImage returns, so the card shows
\* the refresh that completed last.
C25_LastStartedWins ==
    (refreshes # <<>> /\ AllCompleted) => Shows(refreshes[Len(refreshes)].result)

\* The candidates fetchBirdImage can return for the card's bird.
IsSourceOrPlaceholder(r) ==
    \/ r = Placeholder(CardBird.common_name)
    \/ \E src \in {"wikipedia", "pixabay", "unsplash"} : \E c \in ImageContents :
          r = SourceResultOf(src, c)

\* C28: fetchBirdImage never rejects whatever its sources do, so
\* refreshBirdImage never reaches its error state: after any refresh the
\* source indicator is never 'error', and, provided every request completes
\* or fails, every refresh eventually replaces the 'Loading...' image with
\* the image of a source or the placeholder.
C28_RefreshNeverFails ==
    /\ [](/\ sourceIndicator # "error"
          /\ \A n \in DOMAIN refreshes : refreshes[n].stage # "error")
    /\ [][\A n \in DOMAIN refreshes : \A o \in ParOutcomes :
             (StrategyCameBack(n, o) /\ ~Waiting(refreshes'[n])) =>
                 /\ IsSourceOrPlaceholder(refreshes'[n].result)
                 /\ imgSrc' = refreshes'[n].result.url
                 /\ imgSrc' # LoadingUrl
                 /\ sourceIndicator' = refreshes'[n].result.source]_vars
    /\ \A n \in 1..MaxRefreshes :
          (n \in DOMAIN refreshes /\ Waiting(refreshes[n]))
              ~> (n \in DOMAIN refreshes /\ ~Waiting(refreshes[n]))

\* C28 witness: a refresh asked for Unsplash, every strategy gave nothing and
\* one of them threw; the card shows the placeholder, not the error state.
C28_Witness ==
    /\ Len(refreshes) = 1
    /\ refreshes[1].stage = "done"
    /\ refreshes[1].threw
    /\ refreshes[1].result = Placeholder(CardBird.common_name)
    /\ imgSrc = MultiPlaceholderUrl(CardBird.common_name)
    /\ sourceIndicator = "placeholder"

(***************************************************************************)
(* Further claims about the resolver of script.js (checked under Spec)     *)
(***************************************************************************)
\* The request r has left, or is the next to leave.
Reached(r) == (\E i \in DOMAIN log : log[i] = r) \/ (pc = "fetch" /\ req = r)

\* C27: in fetchBirdImagesFromCommons, if any request throws after some
\* candidates were already collected, the function returns the empty list,
\* discarding the collected candidates, and the resolution then proceeds to
\* the Wikipedia strategies.
C27_ThrowDiscardsCollected ==
    /\ [][\A a \in InfoAnswers :
             ( /\ CategoryInfoResponse(a) \/ SearchInfoResponse(a)
               /\ a.kind \in ThrowKinds
               /\ images # <<>> )
             => /\ images' = <<>>
                /\ produced'[1] = 0 /\ produced'[2] = 0
                /\ pc' = "fetch" /\ req' = "summary"
                /\ result' = <<>>]_vars
    /\ [](dropped =>
             /\ ~raised
             /\ Reached("summary")
             /\ \A c \in Range(images) \cup Range(result) : ~FromCommons(c))

\* C27 witness: the image-info request of the third file was rejected after
\* two candidates were collected, and the call returned the image of the
\* Wikipedia summary.
C27_Witness ==
    /\ pc = "done"
    /\ dropped
    /\ Len(SelectSeq(log, LAMBDA r : r = "catinfo")) = 3
    /\ "catinfo" \in failed
    /\ Len(result) > 0
    /\ \A c \in Range(result) : ~FromCommons(c)

\* The candidates of the list s that a Commons strategy supplied.
CommonsCandidates(s) == SelectSeq(s, FromCommons)

\* C29: fetchBirdImagesFromCommons returns at most 5 candidates, and all
\* candidates of one call come from a single strategy: either all from the
\* category lookup or all from the Commons search, never a mix of both.
C29_AtMostFiveFromOneStrategy ==
    /\ \A s \in {images, result} :
          /\ Len(CommonsCandidates(s)) <= MaxImages
          /\ \A c, d \in Range(CommonsCandidates(s)) : c.source = d.source
    /\ produced[1] <= MaxImages
    /\ produced[2] <= MaxImages
    /\ ~(produced[1] > 0 /\ produced[2] > 0)

\* C29 witness: the category lookup listed files of which none had image
\* info, the Commons search listed six files that pass the filter, and the
\* call returned five candidates, all of the search.
C29_Witness ==
    /\ pc = "done"
    /\ "catinfo" \in empties
    /\ members.from = "search"
    /\ Len(Passing(members.titles)) = 6
    /\ Len(result) = 5
    /\ \A c \in Range(result) : c.source = "search"

\* The step just taken is the only one the handler of the awaited response
\* could take on the answer a: the next request, the lists and the returned
\* value are a function of the state and of the answer.
OnlyOutcome(a) ==
    \E v \in {rvars'} :
        CASE req = "category" ->
               CategoryResponse(a) => ~ENABLED (CategoryResponse(a) /\ rvars' # v)
          [] req = "catinfo" ->
               CategoryInfoResponse(a) => ~ENABLED (CategoryInfoResponse(a) /\ rvars' # v)
          [] req = "search" ->
               SearchResponse(a) => ~ENABLED (SearchResponse(a) /\ rvars' # v)
          [] req = "sinfo" ->
               SearchInfoResponse(a) => ~ENABLED (SearchInfoResponse(a) /\ rvars' # v)
          [] req = "summary" ->
               SummaryResponse(a) => ~ENABLED (SummaryResponse(a) /\ rvars' # v)
          [] req = "wsearch" ->
               WSearchResponse(a) => ~ENABLED (WSearchResponse(a) /\ rvars' # v)
          [] req = "page" ->
               PageResponse(a) => ~ENABLED (PageResponse(a) /\ rvars' # v)

\* The answers the awaited request r can get.
AnswersTo(r) ==
    CASE r \in {"category", "search"} -> ListAnswers
      [] r \in {"catinfo", "sinfo"} -> InfoAnswers
      [] r \in {"summary", "page"} -> SummaryAnswers
      [] r = "wsearch" -> WSearchAnswers

====
